---- MODULE Spec2Model ----
(***************************************************************************)
(* A model of the plugin fetcher script (scripts/fetch-plugins.ts, latest  *)
(* revision): the rate-limited fetch client, the community plugin          *)
(* extractor and the aggregation performed by main.                        *)
(*                                                                         *)
(* Strings are sequences of one-character strings, so that parseInt,       *)
(* toLowerCase, split and replace are computed and not assumed.            *)
(***************************************************************************)
EXTENDS Integers, Sequences, FiniteSets, TLC

\* null / undefined. It is a one-element sequence whose element is no
\* character, so it differs from every string and compares with all of them.
Null == <<"null">>

\* null where the value, when present, is an object (a manifest, a
\* repository, a response): a record with no field of those.
None == [none |-> TRUE]

Max(a, b) == IF a >= b THEN a ELSE b
Min(a, b) == IF a <= b THEN a ELSE b

Range(s) == {s[k] : k \in DOMAIN s}

----------------------------------------------------------------------------
(* State                                                                   *)

VARIABLES
  fw_pc,          \* "loop" | "returned" | "thrown"
  fw_url,
  fw_maxRetries,
  fw_i,           \* the loop index
  fw_now,         \* Date.now(), in ms
  fw_reqTimes,    \* the time of every request issued
  fw_resps,       \* the response to every request
  fw_sleeps,      \* every sleep: [after |-> request number, ms |-> duration]
  fw_result       \* the response returned, or the error thrown

fwVars == <<fw_pc, fw_url, fw_maxRetries, fw_i, fw_now, fw_reqTimes,
            fw_resps, fw_sleeps, fw_result>>

VARIABLES
  pr_pc,          \* "idle" | "start" | "rootFetched" | "subBatches"
                  \*   | "packagesFetched" | "done"
  pr_repo,
  pr_root,        \* rootPackageJson
  pr_dirs,        \* fetchPackagesDirectory: directories
  pr_bi,          \* fetchPackagesDirectory: the batch loop's i
  pr_answers,     \* the answer to every sub-package manifest fetch
  pr_packages,    \* fetchPackagesDirectory: packages
  pr_plugins,     \* plugins
  pr_calls,       \* the kinds of outbound requests made so far
  pr_threw        \* whether the catch block ran

prVars == <<pr_pc, pr_repo, pr_root, pr_dirs, pr_bi, pr_answers, pr_packages,
            pr_plugins, pr_calls, pr_threw>>


VARIABLES
  m_pc,               \* main: "officialRepo" | "officialList" | "officialDirs"
                      \*   | "search" | "process" | "enrich" | "score"
                      \*   | "write" | "done" | "failed" | "exited", or "idle"
  m_payloadRepo,      \* fetchOfficialPayloadPlugins: payloadRepo
  m_pluginDirs,       \* fetchOfficialPayloadPlugins: pluginDirs
  m_di,               \* fetchOfficialPayloadPlugins: dirs handled so far
  m_officialPlugins,  \* officialPlugins
  srv_results,        \* the search API's result list, most recently updated first
  srv_updates,        \* how many repositories were updated during the search
  m_page,             \* searchRepositories: page
  m_pages,            \* searchRepositories: every page requested, with the items received
  m_repos,            \* searchRepositories: allRepos; main: repos
  m_i,                \* main: the batch loop's i
  m_k,                \* main: how many repositories of the batch are processed
  m_results,          \* main: results of the current batch
  m_communityPlugins, \* communityPlugins
  m_allPlugins,       \* allPlugins
  m_snapshot,         \* the contents of data/plugins.json
  m_officialCaught,   \* fetchOfficialPayloadPlugins: whether its outer catch ran
  m_stages,           \* the stages of main completed so far, in order
  m_error,            \* the error main rejected with, or None
  m_exitCode          \* the exit status of the process, once m_pc = "exited"

mVars == <<m_pc, m_payloadRepo, m_pluginDirs, m_di, m_officialPlugins, srv_results,
           srv_updates, m_page, m_pages, m_repos, m_i, m_k, m_results, m_communityPlugins,
           m_allPlugins, m_snapshot, m_officialCaught, m_stages, m_error,
           m_exitCode>>

\* What only the ends of the stages of main change.
mAux == <<m_officialCaught, m_stages, m_error, m_exitCode>>

VARIABLES
  ev_pc,              \* "call" | "returned", or "idle"
  ev_version,         \* extractMajorVersions: version
  ev_result           \* the array returned

evVars == <<ev_pc, ev_version, ev_result>>

VARIABLES
  hs_now,             \* Date.now(), in days
  hs_plugins,         \* enrichPluginsWithHealthScores: plugins
  hs_calls            \* every scoring pass: [at |-> time, scores |-> one per plugin]

hsVars == <<hs_now, hs_plugins, hs_calls>>

VARIABLES
  ui_compareMode,     \* PluginDirectory: compareMode
  ui_selectedIds,     \* PluginDirectory: selectedIds
  ui_closing,         \* timers of ComparisonView.handleClose not yet fired
  ui_last             \* the last handler that ran, with selectedIds before it

uiVars == <<ui_compareMode, ui_selectedIds, ui_closing, ui_last>>

VARIABLES
  bt_pc,              \* "process" | "enrich" | "written", or "idle"
  bt_n,               \* main: repos.length
  bt_i,               \* main: i
  bt_calls,           \* the processRepository calls of the batch, by repository
  bt_results,         \* main: the array Promise.all resolves to
  bt_community,       \* main: communityPlugins
  bt_all,             \* main: allPlugins
  bt_j,               \* enrichPluginsWithNpmData: i
  bt_queries,         \* the plugins whose fetchNpmData call has not returned
  bt_npmResults,      \* enrichPluginsWithNpmData: the array Promise.all resolves to
  bt_reordered        \* a call returned before one issued earlier in its batch

btVars == <<bt_pc, bt_n, bt_i, bt_calls, bt_results, bt_community, bt_all, bt_j,
            bt_queries, bt_npmResults, bt_reordered>>

\* The variables of the components exercised on their own.
pureVars == <<evVars, hsVars, uiVars, btVars>>

\* The variables an action of one component leaves alone.
otherThanFetch == <<prVars, mVars, pureVars>>
otherThanRepo == <<fwVars, mVars, pureVars>>
otherThanMain == <<fwVars, prVars, pureVars>>
otherThanVersions == <<fwVars, prVars, mVars, hsVars, uiVars, btVars>>
otherThanHealth == <<fwVars, prVars, mVars, evVars, uiVars, btVars>>
otherThanPage == <<fwVars, prVars, mVars, evVars, hsVars, btVars>>
otherThanBatches == <<fwVars, prVars, mVars, evVars, hsVars, uiVars>>

----------------------------------------------------------------------------
(* Characters and the string primitives of the script.                     *)

Digits == {"0", "1", "2", "3", "4", "5", "6", "7", "8", "9"}

DigitVal(c) ==
  CASE c = "0" -> 0 [] c = "1" -> 1 [] c = "2" -> 2 [] c = "3" -> 3
    [] c = "4" -> 4 [] c = "5" -> 5 [] c = "6" -> 6 [] c = "7" -> 7
    [] c = "8" -> 8 [] c = "9" -> 9

\* The length of the run of digits at the start of s.
RECURSIVE DigitRun(_)
DigitRun(s) ==
  IF s = <<>> \/ Head(s) \notin Digits THEN 0 ELSE 1 + DigitRun(Tail(s))

RECURSIVE DigitsValue(_, _)
DigitsValue(s, acc) ==
  IF s = <<>> THEN acc ELSE DigitsValue(Tail(s), acc * 10 + DigitVal(Head(s)))

\* parseInt on a string that starts with a digit: the value of its leading
\* digit run. (The script only calls it on such strings, or on a header.)
ParseInt(s) == DigitsValue(SubSeq(s, 1, DigitRun(s)), 0)

\* toLowerCase, on the letters the model's strings use.
ToLowerChar(c) ==
  CASE c = "A" -> "a" [] c = "B" -> "b" [] c = "E" -> "e" [] c = "O" -> "o"
    [] c = "P" -> "p" [] c = "S" -> "s" [] c = "T" -> "t"
    [] OTHER -> c

ToLowerCase(s) == [k \in DOMAIN s |-> ToLowerChar(s[k])]

\* s.startsWith(p)
StartsWith(s, p) == Len(s) >= Len(p) /\ SubSeq(s, 1, Len(p)) = p

\* s.includes(sub)
Includes(s, sub) ==
  \E k \in 1..(Len(s) + 1) : StartsWith(SubSeq(s, k, Len(s)), sub)

\* s.trim(): the model's only white space is the space character.
RECURSIVE TrimStart(_)
TrimStart(s) ==
  IF s # <<>> /\ Head(s) = " " THEN TrimStart(Tail(s)) ELSE s

RECURSIVE TrimEnd(_)
TrimEnd(s) ==
  IF s # <<>> /\ s[Len(s)] = " " THEN TrimEnd(SubSeq(s, 1, Len(s) - 1)) ELSE s

Trim(s) == TrimEnd(TrimStart(s))

\* s.split(sep), for a non-empty separator.
RECURSIVE SplitFrom(_, _, _)
SplitFrom(s, sep, cur) ==
  IF s = <<>> THEN <<cur>>
  ELSE IF StartsWith(s, sep)
    THEN <<cur>> \o SplitFrom(SubSeq(s, Len(sep) + 1, Len(s)), sep, <<>>)
    ELSE SplitFrom(Tail(s), sep, Append(cur, Head(s)))

Split(s, sep) == SplitFrom(s, sep, <<>>)

\* s.replace(/[...]/g, ''): every character of the class removed.
RemoveChars(s, class) == SelectSeq(s, LAMBDA c : c \notin class)

\* s.replace(/-/g, ' ')
Humanize(s) == [k \in DOMAIN s |-> IF s[k] = "-" THEN " " ELSE s[k]]

\* s.replace(p, ''): the first occurrence of the string p removed.
RECURSIVE RemoveFirst(_, _)
RemoveFirst(s, p) ==
  IF s = <<>> THEN <<>>
  ELSE IF StartsWith(s, p) THEN SubSeq(s, Len(p) + 1, Len(s))
  ELSE <<Head(s)>> \o RemoveFirst(Tail(s), p)

\* A value used as a condition: null, undefined and '' are falsy.
Truthy(v) == v # Null /\ v # <<>>

\* a || b
OrElse(a, b) == IF Truthy(a) THEN a ELSE b

\* The same sorted with (a, b) => b - a.
RECURSIVE SortDesc(_)
SortDesc(S) ==
  IF S = {} THEN <<>>
  ELSE LET m == CHOOSE x \in S : \A y \in S : x >= y
       IN <<m>> \o SortDesc(S \ {m})

\* Array.from(set).sort((a, b) => a - b)
RECURSIVE SortAsc(_)
SortAsc(S) ==
  IF S = {} THEN <<>>
  ELSE LET m == CHOOSE x \in S : \A y \in S : x <= y
       IN <<m>> \o SortAsc(S \ {m})

----------------------------------------------------------------------------
(* extractMajorVersions and getPayloadVersion                              *)

S_beta == <<"b", "e", "t", "a">>
S_dashBeta == <<"-", "b", "e", "t", "a">>
S_dotZeroZero == <<".", "0", ".", "0">>
S_orOr == <<"|", "|">>

\* The character class [\^~>=<].
Comparators == {"^", "~", ">", "=", "<"}

\* cleanVersion.match(/^(\d+)\.0\.0(?:-beta|$)/)
BetaMatch(clean) ==
  LET n == DigitRun(clean)
      rest == SubSeq(clean, n + 1, Len(clean))
      tail == SubSeq(rest, Len(S_dotZeroZero) + 1, Len(rest))
  IN  /\ n > 0
      /\ StartsWith(rest, S_dotZeroZero)
      /\ (tail = <<>> \/ StartsWith(tail, S_dashBeta))

\* The majors one alternative of the range adds to the set.
RangeMajors_KeepComparators(range) ==
  IF DigitRun(range) > 0 THEN {ParseInt(range)} ELSE {}
RangeMajors(range) ==
  LET clean == Trim(RemoveChars(range, Comparators)) IN
    IF BetaMatch(clean) THEN {ParseInt(clean)}
    ELSE IF DigitRun(clean) > 0 THEN {ParseInt(clean)}
    ELSE {}

\* The same with a case-sensitive test for `beta`.
extractMajorVersions_CaseSensitive(version) ==
  IF Includes(version, S_beta) THEN <<3>>
  ELSE SortAsc(UNION {RangeMajors(Trim(Split(version, S_orOr)[k])) :
                        k \in DOMAIN Split(version, S_orOr)})
extractMajorVersions(version) ==
  IF Includes(ToLowerCase(version), S_beta) THEN <<3>>
  ELSE LET versionRanges == [k \in DOMAIN Split(version, S_orOr) |->
                               Trim(Split(version, S_orOr)[k])]
       IN SortAsc(UNION {RangeMajors(versionRanges[k]) : k \in DOMAIN versionRanges})

\* A dependency entry that is truthy and not a string (a number, an object):
\* extractMajorVersions throws a TypeError on it (version.toLowerCase).
NonString == <<"#nonstring">>

\* The manifest's `payload` entries: peer, dep and dev hold the value of
\* peerDependencies.payload, dependencies.payload, devDependencies.payload
\* (Null when the map or the entry is missing).
getPayloadVersion_DevFirst(packageJson) ==
  OrElse(packageJson.dev, OrElse(packageJson.dep, OrElse(packageJson.peer, Null)))
getPayloadVersion(packageJson) ==
  OrElse(packageJson.peer, OrElse(packageJson.dep, OrElse(packageJson.dev, Null)))


----------------------------------------------------------------------------
(* fetchWithRetry                                                          *)

\* The default value of the maxRetries parameter; every caller in the script
\* uses it.
DefaultMaxRetries == 3

\* Largest maxRetries argument explored.
MaxRetriesArg == 3

Urls == {"u1", "u2"}

Statuses == {200, 403, 404, 500}
RemainingHeaders == {Null, <<"0">>, <<"5">>}
ResetHeaders == {Null, <<"2">>, <<"1", "0">>}
StartTimes == {0, 5000}

Responses ==
  [status : Statuses, remaining : RemainingHeaders, reset : ResetHeaders]

\* response.ok
ResponseOk(resp) == resp.status >= 200 /\ resp.status <= 299

\* The condition of the rate-limit branch.
IsRateLimited_AnyStatus(resp) ==
  resp.remaining = <<"0">> /\ resp.reset # Null
IsRateLimited(resp) ==
  resp.status = 403 /\ resp.remaining = <<"0">> /\ resp.reset # Null

\* What one loop iteration does with a response, in the order of the tests.
Classify(resp) ==
  IF ResponseOk(resp) THEN "ok"
  ELSE IF IsRateLimited(resp) THEN "ratelimit"
  ELSE IF resp.status = 404 THEN "notfound"
  ELSE "retry"

\* waitTime, and the argument given to sleep.
RateLimitWait_Seconds(resetTime, now) ==
  Max(ParseInt(resetTime) - now + 1000, 0)
RateLimitWait(resetTime, now) ==
  Max(ParseInt(resetTime) * 1000 - now + 1000, 0)

\* The backoff after the failed attempt with 0-based index i.
RetryDelay_Constant(i) == 2000
RetryDelay(i) == (i + 1) * 2000

\* What `continue` does to the loop index in the rate-limit branch: the
\* for statement's i++ runs.
AfterRateLimit_SameAttempt(i) == i
AfterRateLimit(i) == i + 1

FW_Init ==
  /\ fw_pc = "loop"
  /\ fw_url \in Urls
  /\ fw_maxRetries \in 0..MaxRetriesArg
  /\ fw_i = 0
  /\ fw_now \in StartTimes
  /\ fw_reqTimes = <<>>
  /\ fw_resps = <<>>
  /\ fw_sleeps = <<>>
  /\ fw_result = None

\* `await fetch(url, { headers })` in an iteration of the loop.
FW_Request(resp) ==
  /\ fw_pc = "loop"
  /\ fw_i < fw_maxRetries
  /\ fw_reqTimes' = Append(fw_reqTimes, fw_now)
  /\ fw_resps' = Append(fw_resps, resp)

FW_ReturnOk ==
  \E resp \in Responses :
    /\ FW_Request(resp)
    /\ Classify(resp) = "ok"
    /\ fw_pc' = "returned"
    /\ fw_result' = resp
    /\ UNCHANGED <<fw_url, fw_maxRetries, fw_i, fw_now, fw_sleeps>>
    /\ UNCHANGED otherThanFetch

FW_RateLimited ==
  \E resp \in Responses :
    /\ FW_Request(resp)
    /\ Classify(resp) = "ratelimit"
    /\ LET ms == RateLimitWait(resp.reset, fw_now) IN
         /\ fw_sleeps' = Append(fw_sleeps, [after |-> Len(fw_resps) + 1, ms |-> ms])
         /\ fw_now' = fw_now + ms
    /\ fw_i' = AfterRateLimit(fw_i)
    /\ UNCHANGED <<fw_pc, fw_url, fw_maxRetries, fw_result>>
    /\ UNCHANGED otherThanFetch

FW_ReturnNotFound ==
  \E resp \in Responses :
    /\ FW_Request(resp)
    /\ Classify(resp) = "notfound"
    /\ fw_pc' = "returned"
    /\ fw_result' = resp
    /\ UNCHANGED <<fw_url, fw_maxRetries, fw_i, fw_now, fw_sleeps>>
    /\ UNCHANGED otherThanFetch

FW_RetryAfterFailure ==
  \E resp \in Responses :
    /\ FW_Request(resp)
    /\ Classify(resp) = "retry"
    /\ LET ms == RetryDelay(fw_i) IN
         /\ fw_sleeps' = Append(fw_sleeps, [after |-> Len(fw_resps) + 1, ms |-> ms])
         /\ fw_now' = fw_now + ms
    /\ fw_i' = fw_i + 1
    /\ UNCHANGED <<fw_pc, fw_url, fw_maxRetries, fw_result>>
    /\ UNCHANGED otherThanFetch

FW_Throw ==
  /\ fw_pc = "loop"
  /\ ~(fw_i < fw_maxRetries)
  /\ fw_pc' = "thrown"
  /\ fw_result' = [error |-> "Failed to fetch", url |-> fw_url, retries |-> fw_maxRetries]
  /\ UNCHANGED <<fw_url, fw_maxRetries, fw_i, fw_now, fw_reqTimes, fw_resps, fw_sleeps>>
  /\ UNCHANGED otherThanFetch

FW_Next ==
  \/ FW_ReturnOk
  \/ FW_RateLimited
  \/ FW_ReturnNotFound
  \/ FW_RetryAfterFailure
  \/ FW_Throw

FW_Idle ==
  /\ fw_pc = "idle"
  /\ fw_url = "u1"
  /\ fw_maxRetries = DefaultMaxRetries
  /\ fw_i = 0
  /\ fw_now = 0
  /\ fw_reqTimes = <<>>
  /\ fw_resps = <<>>
  /\ fw_sleeps = <<>>
  /\ fw_result = None

----------------------------------------------------------------------------
(* Repositories, manifests and plugins                                     *)

S_root == <<"r", "o", "o", "t">>
S_payloadcms == <<"p", "a", "y", "l", "o", "a", "d", "c", "m", "s">>
S_Payloadcms == <<"P", "a", "y", "l", "o", "a", "d", "c", "m", "s">>
S_bob == <<"b", "o", "b">>
S_MIT == <<"M", "I", "T">>
S_seo == <<"s", "e", "o">>
S_SEO == <<"S", "E", "O">>
S_tool == <<"t", "o", "o", "l">>
S_ab == <<"a", "-", "b">>
S_test == <<"t", "e", "s", "t">>
S_a == <<"a">>
S_b == <<"b">>
S_c == <<"c">>
\* Timestamps: 5 and 200 days before the first run, and one that is no date.
T_recent == <<"3", "9", "5">>
T_midYear == <<"2", "0", "0">>
T_invalid == <<"x">>

S_readme == <<"R", "e", "a", "d", " ", "m", "e">>

V_caret320 == <<"^", "3", ".", "2", ".", "0">>
V_caret200 == <<"^", "2", ".", "0", ".", "0">>
V_either == <<"2", ".", "0", ".", "1", "3", " ", "|", "|", " ", "3", ".", "1", ".", "0">>
V_beta == <<"3", ".", "0", ".", "0", "-", "b", "e", "t", "a", ".", "1", "3", "0">>
V_star == <<"*">>

\* The decimal text of a repository id (ids of the model are 1..9).
IdText(n) ==
  <<CASE n = 0 -> "0" [] n = 1 -> "1" [] n = 2 -> "2" [] n = 3 -> "3"
      [] n = 4 -> "4" [] n = 5 -> "5" [] n = 6 -> "6" [] n = 7 -> "7"
      [] n = 8 -> "8" [] n = 9 -> "9">>

\* `${repo.id}-${suffix}`
PluginId(repo, suffix) == IdText(repo.id) \o <<"-">> \o suffix

\* repo.owner.login.toLowerCase() === 'payloadcms'
OwnerIsOfficial_CaseSensitive(repo) == repo.owner = S_payloadcms
OwnerIsOfficial(repo) == ToLowerCase(repo.owner) = S_payloadcms

\* repo.license?.spdx_id || null
RepoLicense(repo) == OrElse(repo.license, Null)

\* The fields every record pushed by processRepository copies from the
\* repository.
RepoFields(repo) ==
  [stars |-> repo.stars, owner |-> repo.owner, isOfficial |-> OwnerIsOfficial(repo),
   license |-> RepoLicense(repo), openIssues |-> repo.openIssues,
   isArchived |-> repo.archived, lastUpdate |-> repo.pushedAt]

\* { ...f, ...g }
Merge(f, g) == [k \in DOMAIN f \cup DOMAIN g |-> IF k \in DOMAIN g THEN g[k] ELSE f[k]]

\* The record pushed for a root manifest that resolves a version.
RootPlugin_UnknownMajor(repo, packageJson, payloadVersion, readme) ==
  Merge(RepoFields(repo),
    [id |-> PluginId(repo, S_root), name |-> Humanize(repo.name),
     packageName |-> packageJson.name, collection |-> Null,
     payloadVersion |-> payloadVersion, payloadVersionMajor |-> <<0>>,
     readme |-> readme])
RootPlugin(repo, packageJson, payloadVersion, readme) ==
  Merge(RepoFields(repo),
    [id |-> PluginId(repo, S_root), name |-> Humanize(repo.name),
     packageName |-> packageJson.name, collection |-> Null,
     payloadVersion |-> payloadVersion,
     payloadVersionMajor |-> extractMajorVersions(payloadVersion),
     readme |-> readme])

\* The record pushed for one entry of fetchPackagesDirectory's result.
MemberPlugin_NoSentinel(repo, pkg) ==
  LET pkgPayloadVersion == getPayloadVersion(pkg.packageJson) IN
  Merge(RepoFields(repo),
    [id |-> PluginId(repo, pkg.name), name |-> Humanize(pkg.name),
     packageName |-> pkg.packageJson.name, collection |-> repo.name,
     payloadVersion |-> pkgPayloadVersion,
     payloadVersionMajor |-> IF Truthy(pkgPayloadVersion)
                               THEN extractMajorVersions(pkgPayloadVersion)
                               ELSE <<>>,
     readme |-> Null])
MemberPlugin(repo, pkg) ==
  LET pkgPayloadVersion == getPayloadVersion(pkg.packageJson) IN
  Merge(RepoFields(repo),
    [id |-> PluginId(repo, pkg.name), name |-> Humanize(pkg.name),
     packageName |-> pkg.packageJson.name, collection |-> repo.name,
     payloadVersion |-> pkgPayloadVersion,
     payloadVersionMajor |-> IF Truthy(pkgPayloadVersion)
                               THEN extractMajorVersions(pkgPayloadVersion)
                               ELSE <<0>>,
     readme |-> Null])

\* The record pushed when no version is detected: packageName is the root
\* manifest's name, or undefined when there is no root manifest.
UnknownPlugin(repo, packageName, readme) ==
  Merge(RepoFields(repo),
    [id |-> PluginId(repo, S_root), name |-> Humanize(repo.name),
     packageName |-> packageName, collection |-> Null,
     payloadVersion |-> Null, payloadVersionMajor |-> <<0>>,
     readme |-> readme])

\* The members pushed by the loop over packagePlugins, up to the first
\* entry on which extractMajorVersions throws.
RECURSIVE MemberPlugins_VersionedOnly(_, _)
MemberPlugins_VersionedOnly(repo, pkgs) ==
  IF pkgs = <<>> \/ getPayloadVersion(Head(pkgs).packageJson) = NonString THEN <<>>
  ELSE (IF Truthy(getPayloadVersion(Head(pkgs).packageJson))
          THEN <<MemberPlugin(repo, Head(pkgs))>> ELSE <<>>)
         \o MemberPlugins_VersionedOnly(repo, Tail(pkgs))
RECURSIVE MemberPlugins(_, _)
MemberPlugins(repo, pkgs) ==
  IF pkgs = <<>> \/ getPayloadVersion(Head(pkgs).packageJson) = NonString THEN <<>>
  ELSE <<MemberPlugin(repo, Head(pkgs))>> \o MemberPlugins(repo, Tail(pkgs))

MembersThrow(pkgs) ==
  \E k \in DOMAIN pkgs : getPayloadVersion(pkgs[k].packageJson) = NonString

----------------------------------------------------------------------------
(* The servers' content                                                    *)

\* Largest number of entries of a packages/ listing.
MaxDirs == 2

\* Sub-package manifests are fetched five at a time.
SubBatchSize == 5

NamePool == {Null, S_seo, S_SEO}
RangePool == {V_caret320, V_either, V_beta, V_star, NonString}

ManifestPool ==
  [name : NamePool, peer : {Null} \cup RangePool, dep : {Null, <<>>, V_caret200},
   dev : {Null, V_star}]

SubManifestPool ==
  {m \in ManifestPool :
     m.dep = Null /\ m.dev = Null /\ m.peer \in {Null, V_caret320, V_star, NonString}
       /\ m.name # S_SEO}

ReadmePool == {Null, S_readme}

DirNamePool == {S_a, S_b, S_c, S_root}

\* The listings of packages/: entries with distinct names, each a directory
\* or a file.
Listings ==
  UNION {{l \in [1..n -> [name : DirNamePool, type : {"dir", "file"}]] :
            \A j, k \in 1..n : j # k => l[j].name # l[k].name} : n \in 0..MaxDirs}

\* What fetchWithRetry gives for the listing URL: it throws, or returns a
\* 404, or returns the listing.
ListingOutcomes ==
  {[kind |-> "throw", contents |-> <<>>], [kind |-> "notfound", contents |-> <<>>]}
    \cup {[kind |-> "ok", contents |-> l] : l \in Listings}

Repos ==
  { [id |-> 1, name |-> S_seo, owner |-> S_bob, stars |-> 5, license |-> S_MIT,
     openIssues |-> 1, archived |-> FALSE, pushedAt |-> T_recent],
    [id |-> 2, name |-> S_ab, owner |-> S_Payloadcms, stars |-> 9, license |-> S_MIT,
     openIssues |-> 0, archived |-> FALSE, pushedAt |-> T_midYear],
    [id |-> 3, name |-> S_tool, owner |-> S_bob, stars |-> 7, license |-> Null,
     openIssues |-> 0, archived |-> TRUE, pushedAt |-> T_recent],
    [id |-> 4, name |-> S_tool, owner |-> S_payloadcms, stars |-> 0, license |-> Null,
     openIssues |-> 3, archived |-> FALSE, pushedAt |-> T_midYear],
    [id |-> 5, name |-> S_a, owner |-> S_bob, stars |-> 5, license |-> <<>>,
     openIssues |-> 0, archived |-> FALSE, pushedAt |-> T_recent] }

----------------------------------------------------------------------------
(* processRepository and fetchPackagesDirectory                            *)

PR_Idle ==
  /\ pr_pc = "idle"
  /\ pr_repo = None
  /\ pr_root = None
  /\ pr_dirs = <<>>
  /\ pr_bi = 0
  /\ pr_answers = <<>>
  /\ pr_packages = <<>>
  /\ pr_plugins = <<>>
  /\ pr_calls = {}
  /\ pr_threw = FALSE

\* The call processRepository(repo).
PR_Call(repo) ==
  /\ pr_pc' = "start"
  /\ pr_repo' = repo
  /\ pr_root' = None
  /\ pr_dirs' = <<>>
  /\ pr_bi' = 0
  /\ pr_answers' = <<>>
  /\ pr_packages' = <<>>
  /\ pr_plugins' = <<>>
  /\ pr_calls' = {}
  /\ pr_threw' = FALSE

PR_RootVersion == getPayloadVersion(pr_root)

\* const rootPackageJson = await fetchPackageJson(repo): the manifest, or
\* null on a non-2xx answer or a parse failure.
PR_FetchRoot(answer) ==
  /\ pr_pc = "start"
  /\ pr_root' = answer
  /\ pr_calls' = pr_calls \cup {"rootManifest"}
  /\ pr_pc' = "rootFetched"
  /\ UNCHANGED <<pr_repo, pr_dirs, pr_bi, pr_answers, pr_packages, pr_plugins, pr_threw>>

\* The root manifest resolves a version: README preview, then one record.
PR_EmitRoot(readme) ==
  /\ pr_pc = "rootFetched"
  /\ pr_root # None
  /\ Truthy(PR_RootVersion)
  /\ pr_calls' = pr_calls \cup {"readme"}
  /\ IF PR_RootVersion = NonString
       THEN pr_plugins' = pr_plugins /\ pr_threw' = TRUE
       ELSE /\ pr_plugins' =
                 Append(pr_plugins, RootPlugin(pr_repo, pr_root, PR_RootVersion, readme))
            /\ pr_threw' = FALSE
  /\ pr_pc' = "done"
  /\ UNCHANGED <<pr_repo, pr_root, pr_dirs, pr_bi, pr_answers, pr_packages>>

\* fetchPackagesDirectory up to its batch loop: the listing request and
\* the filter on type 'dir'. A throw of fetchWithRetry is caught there.
PR_ListPackages(outcome) ==
  /\ pr_pc = "rootFetched"
  /\ pr_root # None
  /\ ~Truthy(PR_RootVersion)
  /\ pr_calls' = pr_calls \cup {"listing"}
  /\ LET directories ==
           IF outcome.kind = "ok"
             THEN SelectSeq(outcome.contents, LAMBDA item : item.type = "dir")
             ELSE <<>>
     IN /\ pr_dirs' = directories
        /\ pr_pc' = IF directories = <<>> THEN "packagesFetched" ELSE "subBatches"
  /\ pr_bi' = 0
  /\ UNCHANGED <<pr_repo, pr_root, pr_answers, pr_packages, pr_plugins, pr_threw>>

PR_Batch == SubSeq(pr_dirs, pr_bi + 1, Min(pr_bi + SubBatchSize, Len(pr_dirs)))

\* One iteration of the batch loop: the manifests of up to five directories
\* are fetched together; those that exist are pushed in directory order.
PR_FetchSubBatch(answers) ==
  /\ pr_pc = "subBatches"
  /\ pr_bi < Len(pr_dirs)
  /\ DOMAIN answers = DOMAIN PR_Batch
  /\ pr_calls' = pr_calls \cup {"subManifest"}
  /\ LET fetched == [k \in DOMAIN PR_Batch |->
                       [name |-> PR_Batch[k].name, packageJson |-> answers[k]]]
     IN /\ pr_answers' = pr_answers \o fetched
        /\ pr_packages' =
             pr_packages \o SelectSeq(fetched, LAMBDA r : r.packageJson # None)
  /\ pr_bi' = pr_bi + SubBatchSize
  /\ pr_pc' = IF pr_bi + SubBatchSize < Len(pr_dirs) THEN "subBatches" ELSE "packagesFetched"
  /\ UNCHANGED <<pr_repo, pr_root, pr_dirs, pr_plugins, pr_threw>>

\* packagePlugins.length > 0: one record per entry.
PR_EmitMembers ==
  /\ pr_pc = "packagesFetched"
  /\ Len(pr_packages) > 0
  /\ pr_plugins' = pr_plugins \o MemberPlugins(pr_repo, pr_packages)
  /\ pr_threw' = MembersThrow(pr_packages)
  /\ pr_pc' = "done"
  /\ UNCHANGED <<pr_repo, pr_root, pr_dirs, pr_bi, pr_answers, pr_packages, pr_calls>>

\* No package found: README preview, then the "unknown version" record.
PR_EmitUnknown(readme) ==
  /\ pr_pc = "packagesFetched"
  /\ Len(pr_packages) = 0
  /\ pr_calls' = pr_calls \cup {"readme"}
  /\ pr_plugins' = Append(pr_plugins, UnknownPlugin(pr_repo, pr_root.name, readme))
  /\ pr_pc' = "done"
  /\ UNCHANGED <<pr_repo, pr_root, pr_dirs, pr_bi, pr_answers, pr_packages, pr_threw>>

\* No root manifest: README preview, then the "unknown version" record.
PR_EmitNoManifest(readme) ==
  /\ pr_pc = "rootFetched"
  /\ pr_root = None
  /\ pr_calls' = pr_calls \cup {"readme"}
  /\ pr_plugins' = Append(pr_plugins, UnknownPlugin(pr_repo, Null, readme))
  /\ pr_pc' = "done"
  /\ UNCHANGED <<pr_repo, pr_root, pr_dirs, pr_bi, pr_answers, pr_packages, pr_threw>>

\* processRepository against servers that may answer anything.
SR_Init ==
  /\ pr_pc = "start"
  /\ pr_repo \in Repos
  /\ pr_root = None
  /\ pr_dirs = <<>>
  /\ pr_bi = 0
  /\ pr_answers = <<>>
  /\ pr_packages = <<>>
  /\ pr_plugins = <<>>
  /\ pr_calls = {}
  /\ pr_threw = FALSE

SR_FetchRoot ==
  /\ \E answer \in {None} \cup ManifestPool : PR_FetchRoot(answer)
  /\ UNCHANGED otherThanRepo
SR_EmitRoot ==
  /\ \E readme \in ReadmePool : PR_EmitRoot(readme)
  /\ UNCHANGED otherThanRepo
SR_ListPackages ==
  /\ \E outcome \in ListingOutcomes : PR_ListPackages(outcome)
  /\ UNCHANGED otherThanRepo
SR_FetchSubBatch ==
  /\ \E answers \in [DOMAIN PR_Batch -> {None} \cup SubManifestPool] :
       PR_FetchSubBatch(answers)
  /\ UNCHANGED otherThanRepo
SR_EmitMembers ==
  /\ PR_EmitMembers
  /\ UNCHANGED otherThanRepo
SR_EmitUnknown ==
  /\ \E readme \in ReadmePool : PR_EmitUnknown(readme)
  /\ UNCHANGED otherThanRepo
SR_EmitNoManifest ==
  /\ \E readme \in ReadmePool : PR_EmitNoManifest(readme)
  /\ UNCHANGED otherThanRepo

SR_Next ==
  \/ SR_FetchRoot
  \/ SR_EmitRoot
  \/ SR_ListPackages
  \/ SR_FetchSubBatch
  \/ SR_EmitMembers
  \/ SR_EmitUnknown
  \/ SR_EmitNoManifest


----------------------------------------------------------------------------
(* computeHealthScore and enrichPluginsWithHealthScores                    *)

\* Time is counted in days: the script divides every difference of
\* timestamps by 1000 * 60 * 60 * 24 and compares it with whole numbers of
\* days. A timestamp string is the decimal number of its day.

\* The day the script runs first.
FirstDay == 400

\* new Date(s).getTime() is not NaN.
ValidDate(s) == s # Null /\ s # <<>> /\ DigitRun(s) = Len(s)

\* (Date.now() - new Date(s).getTime()) / (1000 * 60 * 60 * 24)
DaysSince(s, now) == now - ParseInt(s)

\* GitHub recency (max 20). Every comparison with NaN is false.
UpdateRecencyScore(lastUpdate, now) ==
  IF ~ValidDate(lastUpdate) THEN 0
  ELSE LET daysSinceUpdate == DaysSince(lastUpdate, now) IN
    IF daysSinceUpdate < 30 THEN 20
    ELSE IF daysSinceUpdate < 90 THEN 15
    ELSE IF daysSinceUpdate < 180 THEN 10
    ELSE IF daysSinceUpdate < 365 THEN 5
    ELSE 0

\* LogSteps[k] is the least integer n with Math.round(5 * log10(n)) >= k,
\* that is with n^10 >= 10^(2k - 1).
LogSteps ==
  <<2, 2, 4, 6, 8, 13, 20, 32, 51, 80, 126, 200, 317, 502, 795, 1259, 1996,
    3163, 5012, 7944>>

\* Math.round(Math.min(Math.log10(n) / Math.log10(base), 1) * max), for
\* base = 10^(max / 5): the number of steps n has reached, at most max.
RoundedLogScore(n, max) == Cardinality({k \in 1..max : n >= LogSteps[k]})

\* Star popularity - log scale (max 15)
StarScore(stars) == IF stars > 0 THEN RoundedLogScore(stars, 15) ELSE 0

\* The issue ratio with 10 for every plugin without stars.
IssueScore_NoStarsAlwaysTen(stars, openIssues) ==
  IF stars > 0
    THEN IF openIssues * 20 < stars THEN 10
         ELSE IF openIssues * 10 < stars THEN 7
         ELSE IF openIssues * 5 < stars THEN 4
         ELSE 0
  ELSE 10
\* Low issue ratio (max 10): openIssues / stars against 0.05, 0.1 and 0.2.
IssueScore(stars, openIssues) ==
  IF stars > 0
    THEN IF openIssues * 20 < stars THEN 10
         ELSE IF openIssues * 10 < stars THEN 7
         ELSE IF openIssues * 5 < stars THEN 4
         ELSE 0
  ELSE IF openIssues = 0 THEN 10 ELSE 0

\* Has license (max 5)
LicenseScore(license) == IF Truthy(license) THEN 5 ELSE 0

\* A score that falls as the downloads grow.
DownloadScore_Inverse(weeklyDownloads) ==
  IF weeklyDownloads > 0
    THEN 20 - Cardinality({k \in 1..20 : weeklyDownloads >= LogSteps[k]})
    ELSE 0
\* Weekly downloads - log scale (max 20)
DownloadScore(weeklyDownloads) ==
  IF weeklyDownloads > 0 THEN RoundedLogScore(weeklyDownloads, 20) ELSE 0

\* npm publish recency (max 15)
PublishRecencyScore(lastPublish, now) ==
  IF ~Truthy(lastPublish) \/ ~ValidDate(lastPublish) THEN 0
  ELSE LET daysSincePublish == DaysSince(lastPublish, now) IN
    IF daysSincePublish < 30 THEN 15
    ELSE IF daysSincePublish < 90 THEN 12
    ELSE IF daysSincePublish < 180 THEN 8
    ELSE IF daysSincePublish < 365 THEN 4
    ELSE 0

\* Low dependency count (max 10)
DependencyScore(dependencyCount) ==
  IF dependencyCount <= 3 THEN 10
  ELSE IF dependencyCount <= 8 THEN 7
  ELSE IF dependencyCount <= 15 THEN 4
  ELSE 0

\* Small package size (max 5); unpackedSize is None or [bytes |-> n].
SizeScore(unpackedSize) ==
  IF unpackedSize = None THEN 0
  ELSE IF unpackedSize.bytes < 50 * 1024 THEN 5
  ELSE IF unpackedSize.bytes < 200 * 1024 THEN 3
  ELSE IF unpackedSize.bytes < 1024 * 1024 THEN 1
  ELSE 0

\* npm-based signals
NpmScore(npm, now) ==
  IF npm = None THEN 0
  ELSE DownloadScore(npm.weeklyDownloads)
       + PublishRecencyScore(npm.lastPublish, now)
       + DependencyScore(npm.dependencyCount)
       + SizeScore(npm.unpackedSize)

\* Official plugin bonus
OfficialBonus(isOfficial) == IF isOfficial THEN 5 ELSE 0

\* score just before the return statement.
HealthSum(plugin, now) ==
  UpdateRecencyScore(plugin.lastUpdate, now)
  + StarScore(plugin.stars)
  + IssueScore(plugin.stars, plugin.openIssues)
  + LicenseScore(plugin.license)
  + NpmScore(plugin.npm, now)
  + OfficialBonus(plugin.isOfficial)

\* The same without the final Math.min.
computeHealthScore_Unclamped(plugin, now) ==
  IF plugin.isArchived THEN 0 ELSE HealthSum(plugin, now)
\* The same without the test of isArchived.
computeHealthScore_IgnoreArchived(plugin, now) == Min(HealthSum(plugin, now), 100)
\* computeHealthScore(plugin), called when Date.now() is `now`.
computeHealthScore(plugin, now) ==
  IF plugin.isArchived THEN 0 ELSE Min(HealthSum(plugin, now), 100)

----------------------------------------------------------------------------
(* fetchOfficialPayloadPlugins                                             *)

S_official == <<"o", "f", "f", "i", "c", "i", "a", "l", "-">>
S_pluginDash == <<"p", "l", "u", "g", "i", "n", "-">>
S_scope == <<"@", "p", "a", "y", "l", "o", "a", "d", "c", "m", "s", "/">>
S_payload == <<"p", "a", "y", "l", "o", "a", "d">>
S_ui == <<"u", "i">>
V_workspace == <<"w", "o", "r", "k", "s", "p", "a", "c", "e", ":", "*">>

\* The record pushed for one plugin-* directory of payloadcms/payload.
OfficialPlugin(payloadRepo, dirName, packageJson) ==
  LET payloadVersion == getPayloadVersion(packageJson) IN
  [id |-> S_official \o dirName,
   name |-> Humanize(RemoveFirst(dirName, S_pluginDash)),
   packageName |-> OrElse(packageJson.name, S_scope \o dirName),
   collection |-> S_payload,
   stars |-> payloadRepo.stars,
   lastUpdate |-> payloadRepo.pushedAt,
   owner |-> S_payloadcms,
   isOfficial |-> TRUE,
   payloadVersion |-> payloadVersion,
   payloadVersionMajor |-> IF Truthy(payloadVersion)
                             THEN extractMajorVersions(payloadVersion)
                             ELSE <<3>>,
   license |-> OrElse(payloadRepo.license, S_MIT),
   openIssues |-> 0,
   isArchived |-> FALSE,
   readme |-> Null]

\* Building the record throws (and the directory is skipped) when the
\* repository metadata is a 404 body, whose owner is undefined, or when the
\* dependency entry is not a string.
OfficialPushThrows(payloadRepo, packageJson) ==
  payloadRepo = None \/ getPayloadVersion(packageJson) = NonString

\* The metadata of payloadcms/payload, with or without a license.
PayloadRepoPool ==
  { [id |-> 9, name |-> S_payload, owner |-> S_payloadcms, stars |-> 7,
     license |-> lic, openIssues |-> 2, archived |-> FALSE, pushedAt |-> T_recent] :
      lic \in {Null, S_MIT} }

\* The listing of packages/ in payloadcms/payload.
OfficialContents ==
  << [name |-> S_pluginDash \o S_seo, type |-> "dir"],
     [name |-> S_ui, type |-> "dir"],
     [name |-> S_pluginDash \o S_ab, type |-> "dir"],
     [name |-> S_pluginDash \o S_c, type |-> "file"] >>

OfficialManifestPool ==
  [name : {Null, S_seo, S_SEO}, peer : {Null, V_workspace}, dep : {Null}, dev : {Null}]

\* item.type === 'dir' && item.name.startsWith('plugin-')
IsPluginDir(item) == item.type = "dir" /\ StartsWith(item.name, S_pluginDash)

\* The repository request: a throw of fetchWithRetry is caught by the outer
\* try and the function returns no plugin.
M_OfficialFetchRepo ==
  /\ m_pc = "officialRepo"
  /\ \/ /\ m_pc' = "search"
        /\ m_payloadRepo' = m_payloadRepo
        /\ m_officialCaught' = TRUE
        /\ m_stages' = Append(m_stages, "official")
     \/ /\ m_pc' = "officialList"
        /\ m_payloadRepo' \in {None} \cup PayloadRepoPool
        /\ UNCHANGED <<m_officialCaught, m_stages>>
  /\ UNCHANGED <<m_error, m_exitCode>>
  /\ UNCHANGED <<m_pluginDirs, m_di, m_officialPlugins, srv_results, srv_updates,
                 m_page, m_pages, m_repos, m_i, m_k, m_results, m_communityPlugins,
                 m_allPlugins, m_snapshot>>
  /\ UNCHANGED otherThanMain

\* The listing request: a throw or a non-2xx answer ends the function.
M_OfficialList ==
  /\ m_pc = "officialList"
  /\ \E kind \in {"throw", "notfound", "ok"} :
       LET pluginDirs == IF kind = "ok" THEN SelectSeq(OfficialContents, IsPluginDir)
                         ELSE <<>>
       IN /\ m_pluginDirs' = pluginDirs
          /\ m_pc' = IF pluginDirs = <<>> THEN "search" ELSE "officialDirs"
          /\ m_officialCaught' = (kind = "throw")
          /\ m_stages' = IF pluginDirs = <<>> THEN Append(m_stages, "official")
                         ELSE m_stages
  /\ m_di' = 0
  /\ UNCHANGED <<m_error, m_exitCode>>
  /\ UNCHANGED <<m_payloadRepo, m_officialPlugins, srv_results, srv_updates,
                 m_page, m_pages, m_repos, m_i, m_k, m_results, m_communityPlugins,
                 m_allPlugins, m_snapshot>>
  /\ UNCHANGED otherThanMain

\* One iteration of the loop over pluginDirs: the manifest request (None: a
\* non-2xx answer or a failed request), the push, the 50 ms sleep.
M_OfficialFetchDir ==
  /\ m_pc = "officialDirs"
  /\ \E answer \in {None} \cup OfficialManifestPool :
       m_officialPlugins' =
         IF answer = None \/ OfficialPushThrows(m_payloadRepo, answer)
           THEN m_officialPlugins
           ELSE Append(m_officialPlugins,
                       OfficialPlugin(m_payloadRepo, m_pluginDirs[m_di + 1].name, answer))
  /\ m_di' = m_di + 1
  /\ m_pc' = IF m_di + 1 < Len(m_pluginDirs) THEN "officialDirs" ELSE "search"
  /\ m_stages' = IF m_di + 1 < Len(m_pluginDirs) THEN m_stages
                 ELSE Append(m_stages, "official")
  /\ UNCHANGED <<m_officialCaught, m_error, m_exitCode>>
  /\ UNCHANGED <<m_payloadRepo, m_pluginDirs, srv_results, srv_updates,
                 m_page, m_pages, m_repos, m_i, m_k, m_results, m_communityPlugins,
                 m_allPlugins, m_snapshot>>
  /\ UNCHANGED otherThanMain

----------------------------------------------------------------------------
(* searchRepositories                                                      *)

\* perPage (100 in the script) and the 1000-result limit, scaled down
\* together.
PageSize == 2
ResultCap == 4

\* Largest number of repositories updated while the search is paginated.
MaxUpdates == 1

RepoById(n) == CHOOSE r \in Repos : r.id = n

\* The result list when the search starts: the archived repository is the
\* least recently pushed one.
InitialResults == <<RepoById(1), RepoById(2), RepoById(4), RepoById(5), RepoById(3)>>

\* data.items of the given page.
PageItems(results, page) ==
  SubSeq(results, (page - 1) * PageSize + 1, Min(page * PageSize, Len(results)))

\* A repository is pushed while the pages are fetched: with sort=updated it
\* moves to the head of the result list.
SRV_Update ==
  /\ m_pc = "search"
  /\ srv_updates < MaxUpdates
  /\ \E k \in 2..Len(srv_results) :
       srv_results' = <<srv_results[k]>> \o SubSeq(srv_results, 1, k - 1)
                        \o SubSeq(srv_results, k + 1, Len(srv_results))
  /\ srv_updates' = srv_updates + 1
  /\ UNCHANGED mAux
  /\ UNCHANGED <<m_pc, m_payloadRepo, m_pluginDirs, m_di, m_officialPlugins,
                 m_page, m_pages, m_repos, m_i, m_k, m_results, m_communityPlugins,
                 m_allPlugins, m_snapshot>>
  /\ UNCHANGED otherThanMain

\* searchRepositories has no dedup step; this is what one would look like.
AccumulateRepos_Dedup(allRepos, activeRepos) ==
  allRepos \o SelectSeq(activeRepos, LAMBDA r : r \notin Range(allRepos))
\* allRepos.push(...activeRepos)
AccumulateRepos(allRepos, activeRepos) == allRepos \o activeRepos

\* new Error(`Failed to fetch ${url} after ${maxRetries} retries`)
RetriesExhausted == [message |-> "Failed to fetch after retries"]

\* One iteration of the pagination loop. A throw of fetchWithRetry is not
\* caught: it rejects main. The body of a 404 has no items.
M_SearchPage ==
  /\ m_pc = "search"
  /\ \E kind \in {"throw", "notfound", "ok"} :
       IF kind = "throw"
         THEN /\ m_pc' = "failed"
              /\ m_error' = RetriesExhausted
              /\ m_pages' = Append(m_pages, [page |-> m_page, ok |-> FALSE, items |-> <<>>])
              /\ UNCHANGED <<m_page, m_repos, m_stages>>
         ELSE LET items == IF kind = "ok" THEN PageItems(srv_results, m_page) ELSE <<>>
                  activeRepos == SelectSeq(items, LAMBDA r : ~r.archived)
                  allRepos == AccumulateRepos(m_repos, activeRepos)
                  last == \/ items = <<>>
                          \/ Len(allRepos) >= ResultCap
                          \/ Len(items) < PageSize
              IN /\ m_pages' = Append(m_pages, [page |-> m_page, ok |-> TRUE, items |-> items])
                 /\ m_repos' = IF items = <<>> THEN m_repos ELSE allRepos
                 /\ m_page' = IF last THEN m_page ELSE m_page + 1
                 /\ m_pc' = IF last THEN "process" ELSE "search"
                 /\ m_stages' = IF last THEN Append(m_stages, "search") ELSE m_stages
                 /\ m_error' = m_error
  /\ UNCHANGED <<m_officialCaught, m_exitCode>>
  /\ UNCHANGED <<m_payloadRepo, m_pluginDirs, m_di, m_officialPlugins, srv_results,
                 srv_updates, m_i, m_k, m_results, m_communityPlugins,
                 m_allPlugins, m_snapshot>>
  /\ UNCHANGED otherThanMain

----------------------------------------------------------------------------
(* main: processing, merge, sort, write                                    *)

\* Repositories are processed ten at a time.
RepoBatchSize == 10

\* What the servers hold for each repository of the search results.
NoDeps == [peer |-> Null, dep |-> Null, dev |-> Null]

SiteRoot(repo) ==
  CASE repo.id = 1 -> Merge(NoDeps, [name |-> S_SEO, peer |-> V_caret320])
    [] repo.id = 2 -> Merge(NoDeps, [name |-> S_ab])
    [] repo.id = 5 -> Merge(NoDeps, [name |-> S_test, dep |-> <<>>])
    [] OTHER -> None

SiteListing(repo) ==
  CASE repo.id = 2 ->
         [kind |-> "ok",
          contents |-> << [name |-> S_a, type |-> "dir"],
                          [name |-> S_b, type |-> "dir"],
                          [name |-> S_c, type |-> "dir"],
                          [name |-> S_root, type |-> "file"] >>]
    [] OTHER -> [kind |-> "notfound", contents |-> <<>>]

SiteSubManifest(repo, dirName) ==
  CASE dirName = S_a -> Merge(NoDeps, [name |-> S_tool, peer |-> V_star])
    [] dirName = S_b -> Merge(NoDeps, [name |-> S_seo])
    [] dirName = S_c -> Merge(NoDeps, [name |-> S_c, peer |-> NonString])
    [] OTHER -> None

SiteReadme(repo) == IF repo.id = 1 THEN S_readme ELSE Null

M_Processing == m_pc = "process"

\* The end of the current batch: Math.min(i + batchSize, repos.length).
M_BatchEnd == Min(m_i + RepoBatchSize, Len(m_repos))

M_KeepMain == UNCHANGED <<mVars, fwVars, pureVars>>

\* The next processRepository call of batch.map(processRepository).
M_StartRepo ==
  /\ M_Processing
  /\ pr_pc = "idle"
  /\ m_i + m_k < M_BatchEnd
  /\ PR_Call(m_repos[m_i + m_k + 1])
  /\ M_KeepMain

M_FetchRoot ==
  /\ M_Processing
  /\ PR_FetchRoot(SiteRoot(pr_repo))
  /\ M_KeepMain

M_EmitRoot ==
  /\ M_Processing
  /\ PR_EmitRoot(SiteReadme(pr_repo))
  /\ M_KeepMain

M_ListPackages ==
  /\ M_Processing
  /\ PR_ListPackages(SiteListing(pr_repo))
  /\ M_KeepMain

M_FetchSubBatch ==
  /\ M_Processing
  /\ PR_FetchSubBatch([k \in DOMAIN PR_Batch |-> SiteSubManifest(pr_repo, PR_Batch[k].name)])
  /\ M_KeepMain

M_EmitMembers ==
  /\ M_Processing
  /\ PR_EmitMembers
  /\ M_KeepMain

M_EmitUnknown ==
  /\ M_Processing
  /\ PR_EmitUnknown(SiteReadme(pr_repo))
  /\ M_KeepMain

M_EmitNoManifest ==
  /\ M_Processing
  /\ PR_EmitNoManifest(SiteReadme(pr_repo))
  /\ M_KeepMain

\* processRepository returns: its plugins are the next entry of results.
M_CollectRepo ==
  /\ M_Processing
  /\ pr_pc = "done"
  /\ m_results' = Append(m_results, pr_plugins)
  /\ m_k' = m_k + 1
  /\ pr_pc' = "idle"
  /\ pr_repo' = None
  /\ pr_root' = None
  /\ pr_dirs' = <<>>
  /\ pr_bi' = 0
  /\ pr_answers' = <<>>
  /\ pr_packages' = <<>>
  /\ pr_plugins' = <<>>
  /\ pr_calls' = {}
  /\ pr_threw' = FALSE
  /\ UNCHANGED <<m_pc, m_payloadRepo, m_pluginDirs, m_di, m_officialPlugins,
                 srv_results, srv_updates, m_page, m_pages, m_repos, m_i, m_communityPlugins,
                 m_allPlugins, m_snapshot>>
  /\ UNCHANGED mAux
  /\ UNCHANGED <<fwVars, pureVars>>

\* results.flat()
RECURSIVE Flat(_)
Flat(ss) == IF ss = <<>> THEN <<>> ELSE Head(ss) \o Flat(Tail(ss))

\* Promise.all resolved: communityPlugins.push(...results.flat()); the loop
\* goes to the next batch.
M_EndBatch ==
  /\ M_Processing
  /\ pr_pc = "idle"
  /\ m_i < Len(m_repos)
  /\ m_i + m_k = M_BatchEnd
  /\ m_communityPlugins' = m_communityPlugins \o Flat(m_results)
  /\ m_i' = m_i + RepoBatchSize
  /\ m_k' = 0
  /\ m_results' = <<>>
  /\ UNCHANGED mAux
  /\ UNCHANGED <<m_pc, m_payloadRepo, m_pluginDirs, m_di, m_officialPlugins,
                 srv_results, srv_updates, m_page, m_pages, m_repos, m_allPlugins, m_snapshot>>
  /\ UNCHANGED otherThanMain

\* new Set(officialPlugins.map(p => p.packageName?.toLowerCase()))
OfficialPackageNames_CaseSensitive(officialPlugins) ==
  {officialPlugins[k].packageName : k \in DOMAIN officialPlugins}
OfficialPackageNames(officialPlugins) ==
  {IF officialPlugins[k].packageName = Null THEN Null
   ELSE ToLowerCase(officialPlugins[k].packageName) : k \in DOMAIN officialPlugins}

\* The filter on communityPlugins.
IsDuplicateOfOfficial(p, officialPackageNames) ==
  Truthy(p.packageName) /\ ToLowerCase(p.packageName) \in officialPackageNames

FilteredCommunityPlugins(officialPlugins, communityPlugins) ==
  SelectSeq(communityPlugins,
            LAMBDA p : ~IsDuplicateOfOfficial(p, OfficialPackageNames(officialPlugins)))

\* What main does after the merge: await enrichPluginsWithNpmData(allPlugins).
AfterMerge_SkipEnrichment == "write"
AfterMerge == "enrich"

\* The loop is over: merge.
M_Merge ==
  /\ M_Processing
  /\ pr_pc = "idle"
  /\ ~(m_i < Len(m_repos))
  /\ m_allPlugins' =
       m_officialPlugins \o FilteredCommunityPlugins(m_officialPlugins, m_communityPlugins)
  /\ m_pc' = AfterMerge
  /\ m_stages' = m_stages \o <<"process", "merge">>
  /\ UNCHANGED <<m_officialCaught, m_error, m_exitCode>>
  /\ UNCHANGED <<m_payloadRepo, m_pluginDirs, m_di, m_officialPlugins, srv_results,
                 srv_updates, m_page, m_pages, m_repos, m_i, m_k, m_results,
                 m_communityPlugins, m_snapshot>>
  /\ UNCHANGED otherThanMain

----------------------------------------------------------------------------
(* npm enrichment and scoring in main                                      *)

INVALID_PACKAGE_NAMES ==
  { <<"d", "e", "v">>, <<"t", "e", "s", "t">>, <<"t", "e", "s", "t", "s">>,
    <<"e", "x", "a", "m", "p", "l", "e">>,
    <<"e", "x", "a", "m", "p", "l", "e", "s">>, <<"d", "e", "m", "o">>,
    <<"s", "a", "m", "p", "l", "e">>, <<"a", "p", "p">>, <<"w", "e", "b">>,
    <<"c", "l", "i", "e", "n", "t">>, <<"s", "e", "r", "v", "e", "r">>,
    <<"a", "p", "i">>, <<"c", "o", "r", "e">>, <<"l", "i", "b">>,
    <<"u", "t", "i", "l", "s">>, <<"c", "o", "n", "f", "i", "g">>,
    <<"d", "o", "c", "s">>, <<"p", "a", "c", "k", "a", "g", "e", "s">>,
    <<"s", "r", "c">>, <<"d", "i", "s", "t">>, <<"b", "u", "i", "l", "d">>,
    <<"s", "c", "r", "i", "p", "t", "s">>,
    <<"u", "n", "d", "e", "f", "i", "n", "e", "d">>, <<"n", "u", "l", "l">>,
    <<"t", "r", "u", "e">>, <<"f", "a", "l", "s", "e">> }

LowerLetters ==
  {"a", "b", "c", "d", "e", "f", "g", "h", "i", "j", "k", "l", "m", "n", "o",
   "p", "q", "r", "s", "t", "u", "v", "w", "x", "y", "z"}

\* [a-z0-9-~] and [a-z0-9-._~]
NameStartChars == LowerLetters \cup Digits \cup {"-", "~"}
NameChars == NameStartChars \cup {".", "_"}

\* [a-z0-9-~][a-z0-9-._~]* matches the whole of part.
MatchesNamePart(part) ==
  /\ part # <<>>
  /\ part[1] \in NameStartChars
  /\ \A k \in 2..Len(part) : part[k] \in NameChars

\* /^(@[a-z0-9-~][a-z0-9-._~]*\/)?[a-z0-9-~][a-z0-9-._~]*$/.test(name)
MatchesPackagePattern(name) ==
  \/ MatchesNamePart(name)
  \/ /\ name # <<>>
     /\ name[1] = "@"
     /\ \E k \in 2..Len(name) :
          /\ name[k] = "/"
          /\ MatchesNamePart(SubSeq(name, 2, k - 1))
          /\ MatchesNamePart(SubSeq(name, k + 1, Len(name)))

isValidPackageName_NoDenylist(name) ==
  /\ Truthy(name)
  /\ MatchesPackagePattern(name)
isValidPackageName(name) ==
  /\ Truthy(name)
  /\ ToLowerCase(name) \notin INVALID_PACKAGE_NAMES
  /\ MatchesPackagePattern(name)

\* What the registry answers for a package: its stats, or None for a
\* package it does not know (fetchNpmData returns null).
SiteNpm(packageName) ==
  CASE packageName = S_seo ->
         [weeklyDownloads |-> 10000, lastPublish |-> T_recent, dependencyCount |-> 0,
          unpackedSize |-> [bytes |-> 10240]]
    [] packageName = S_scope \o S_pluginDash \o S_seo ->
         [weeklyDownloads |-> 100, lastPublish |-> T_midYear, dependencyCount |-> 9,
          unpackedSize |-> [bytes |-> 102400]]
    [] packageName = S_tool ->
         [weeklyDownloads |-> 0, lastPublish |-> <<>>, dependencyCount |-> 20,
          unpackedSize |-> None]
    [] packageName = S_test ->
         [weeklyDownloads |-> 100, lastPublish |-> T_midYear, dependencyCount |-> 0,
          unpackedSize |-> None]
    [] OTHER -> None

\* fetchNpmData(packageName), when the requests for the package `failed`
\* throw: the catch returns null.
fetchNpmData_FailsAll(packageName, failed) ==
  IF failed # Null THEN None ELSE SiteNpm(packageName)
fetchNpmData(packageName, failed) ==
  IF packageName = failed THEN None ELSE SiteNpm(packageName)

\* The plugin after enrichPluginsWithNpmData: plugin.npm is assigned when
\* the name is valid and the data is not null.
WithNpmData(plugin, failed) ==
  IF isValidPackageName(plugin.packageName)
       /\ fetchNpmData(plugin.packageName, failed) # None
    THEN Merge(plugin, [npm |-> fetchNpmData(plugin.packageName, failed)])
    ELSE plugin

\* The plugin as computeHealthScore reads it: npm is undefined when the
\* field was never assigned.
ScoreInput(plugin) == Merge([npm |-> None], plugin)

\* plugin.healthScore = computeHealthScore(plugin)
WithHealthScore(plugin, now) ==
  Merge(plugin, [healthScore |-> computeHealthScore(ScoreInput(plugin), now)])

\* The records of allPlugins are the objects of officialPlugins and
\* communityPlugins: an assignment to one of them shows in those arrays too.
Shared(list, allPlugins, Op(_)) ==
  [k \in DOMAIN list |-> IF list[k] \in Range(allPlugins) THEN Op(list[k]) ELSE list[k]]

\* await enrichPluginsWithNpmData(allPlugins): the requests for at most one
\* package fail.
M_EnrichNpm ==
  /\ m_pc = "enrich"
  /\ \E failed \in {Null} \cup
         {pl.packageName : pl \in {x \in Range(m_allPlugins) : isValidPackageName(x.packageName)}} :
       /\ m_allPlugins' = [k \in DOMAIN m_allPlugins |-> WithNpmData(m_allPlugins[k], failed)]
       /\ m_officialPlugins' =
            Shared(m_officialPlugins, m_allPlugins, LAMBDA x : WithNpmData(x, failed))
       /\ m_communityPlugins' =
            Shared(m_communityPlugins, m_allPlugins, LAMBDA x : WithNpmData(x, failed))
  /\ m_pc' = "score"
  /\ m_stages' = Append(m_stages, "enrich")
  /\ UNCHANGED <<m_officialCaught, m_error, m_exitCode>>
  /\ UNCHANGED <<m_payloadRepo, m_pluginDirs, m_di, srv_results, srv_updates, m_page, m_pages,
                 m_repos, m_i, m_k, m_results, m_snapshot>>
  /\ UNCHANGED otherThanMain

\* enrichPluginsWithHealthScores(allPlugins)
M_Score ==
  /\ m_pc = "score"
  /\ m_allPlugins' = [k \in DOMAIN m_allPlugins |-> WithHealthScore(m_allPlugins[k], FirstDay)]
  /\ m_officialPlugins' =
       Shared(m_officialPlugins, m_allPlugins, LAMBDA x : WithHealthScore(x, FirstDay))
  /\ m_communityPlugins' =
       Shared(m_communityPlugins, m_allPlugins, LAMBDA x : WithHealthScore(x, FirstDay))
  /\ m_pc' = "write"
  /\ m_stages' = Append(m_stages, "score")
  /\ UNCHANGED <<m_officialCaught, m_error, m_exitCode>>
  /\ UNCHANGED <<m_payloadRepo, m_pluginDirs, m_di, srv_results, srv_updates, m_page, m_pages,
                 m_repos, m_i, m_k, m_results, m_snapshot>>
  /\ UNCHANGED otherThanMain

\* allPlugins.sort((a, b) => b.stars - a.stars): a stable sort.
RECURSIVE InsertByStars(_, _)
InsertByStars(sorted, p) ==
  IF sorted = <<>> THEN <<p>>
  ELSE IF Head(sorted).stars >= p.stars
    THEN <<Head(sorted)>> \o InsertByStars(Tail(sorted), p)
    ELSE <<p>> \o sorted

RECURSIVE SortByStars(_)
SortByStars(ps) ==
  IF ps = <<>> THEN <<>>
  ELSE InsertByStars(SortByStars(SubSeq(ps, 1, Len(ps) - 1)), ps[Len(ps)])

\* The file before the run.
PreviousSnapshot == [totalCount |-> 0, plugins |-> <<>>, fresh |-> FALSE]

\* Sort, then fs.writeFileSync(OUTPUT_PATH, ...).
M_Write ==
  /\ m_pc = "write"
  /\ m_allPlugins' = SortByStars(m_allPlugins)
  /\ m_snapshot' = [totalCount |-> Len(m_allPlugins),
                    plugins |-> SortByStars(m_allPlugins), fresh |-> TRUE]
  /\ m_pc' = "done"
  /\ m_stages' = Append(m_stages, "write")
  /\ UNCHANGED <<m_officialCaught, m_error, m_exitCode>>
  /\ UNCHANGED <<m_payloadRepo, m_pluginDirs, m_di, m_officialPlugins, srv_results,
                 srv_updates, m_page, m_pages, m_repos, m_i, m_k, m_results,
                 m_communityPlugins>>
  /\ UNCHANGED otherThanMain

\* main resolved: nothing is left to run and the process ends. No
\* statement of the script sets an exit status.
M_ExitDone ==
  /\ m_pc = "done"
  /\ m_pc' = "exited"
  /\ m_exitCode' = 0
  /\ UNCHANGED <<m_officialCaught, m_stages, m_error>>
  /\ UNCHANGED <<m_payloadRepo, m_pluginDirs, m_di, m_officialPlugins, srv_results,
                 srv_updates, m_page, m_pages, m_repos, m_i, m_k, m_results,
                 m_communityPlugins, m_allPlugins, m_snapshot>>
  /\ UNCHANGED otherThanMain

\* main().catch(console.error): the rejection is handled by printing the
\* error, and the process ends as after a resolved main.
M_CatchFatal ==
  /\ m_pc = "failed"
  /\ m_pc' = "exited"
  /\ m_exitCode' = 0
  /\ UNCHANGED <<m_officialCaught, m_stages, m_error>>
  /\ UNCHANGED <<m_payloadRepo, m_pluginDirs, m_di, m_officialPlugins, srv_results,
                 srv_updates, m_page, m_pages, m_repos, m_i, m_k, m_results,
                 m_communityPlugins, m_allPlugins, m_snapshot>>
  /\ UNCHANGED otherThanMain

M_Init ==
  /\ m_pc = "officialRepo"
  /\ m_payloadRepo = None
  /\ m_pluginDirs = <<>>
  /\ m_di = 0
  /\ m_officialPlugins = <<>>
  /\ srv_results = InitialResults
  /\ srv_updates = 0
  /\ m_page = 1
  /\ m_pages = <<>>
  /\ m_repos = <<>>
  /\ m_i = 0
  /\ m_k = 0
  /\ m_results = <<>>
  /\ m_communityPlugins = <<>>
  /\ m_allPlugins = <<>>
  /\ m_snapshot = PreviousSnapshot
  /\ m_officialCaught = FALSE
  /\ m_stages = <<>>
  /\ m_error = None
  /\ m_exitCode = 0

M_Idle ==
  /\ m_pc = "idle"
  /\ m_payloadRepo = None
  /\ m_pluginDirs = <<>>
  /\ m_di = 0
  /\ m_officialPlugins = <<>>
  /\ srv_results = <<>>
  /\ srv_updates = 0
  /\ m_page = 1
  /\ m_pages = <<>>
  /\ m_repos = <<>>
  /\ m_i = 0
  /\ m_k = 0
  /\ m_results = <<>>
  /\ m_communityPlugins = <<>>
  /\ m_allPlugins = <<>>
  /\ m_snapshot = PreviousSnapshot
  /\ m_officialCaught = FALSE
  /\ m_stages = <<>>
  /\ m_error = None
  /\ m_exitCode = 0

M_Next ==
  \/ M_OfficialFetchRepo
  \/ M_OfficialList
  \/ M_OfficialFetchDir
  \/ SRV_Update
  \/ M_SearchPage
  \/ M_StartRepo
  \/ M_FetchRoot
  \/ M_EmitRoot
  \/ M_ListPackages
  \/ M_FetchSubBatch
  \/ M_EmitMembers
  \/ M_EmitUnknown
  \/ M_EmitNoManifest
  \/ M_CollectRepo
  \/ M_EndBatch
  \/ M_Merge
  \/ M_EnrichNpm
  \/ M_Score
  \/ M_Write
  \/ M_ExitDone
  \/ M_CatchFatal

----------------------------------------------------------------------------
(* The inputs of the scorer. *)

\* How many 30-day steps the clock may advance after the first pass.
MaxMonths == 1

\* Largest number of scoring passes over the same plugins.
MaxPasses == 2

NpmPool ==
  { [weeklyDownloads |-> 10000, lastPublish |-> T_recent, dependencyCount |-> 0,
     unpackedSize |-> [bytes |-> 10240]],
    [weeklyDownloads |-> 100, lastPublish |-> T_midYear, dependencyCount |-> 9,
     unpackedSize |-> [bytes |-> 102400]],
    [weeklyDownloads |-> 0, lastPublish |-> <<>>, dependencyCount |-> 20,
     unpackedSize |-> None] }

DownloadPool == {0, 1, 10, 100, 1000, 10000, 100000}

\* stars and openIssues: every branch of the issue ratio.
PopularityPool ==
  { [stars |-> 0, openIssues |-> 0], [stars |-> 0, openIssues |-> 3],
    [stars |-> 10, openIssues |-> 1], [stars |-> 1000, openIssues |-> 0],
    [stars |-> 1000, openIssues |-> 60] }

ScoredPlugins ==
  { [isArchived |-> a, isOfficial |-> o, license |-> l, stars |-> sp.stars,
     openIssues |-> sp.openIssues, lastUpdate |-> u, npm |-> n] :
      a \in BOOLEAN, o \in BOOLEAN, l \in {Null, S_MIT}, sp \in PopularityPool,
      u \in {T_recent, T_midYear, T_invalid}, n \in {None} \cup NpmPool }

\* The plugin with another weekly download count.
WithDownloads(plugin, w) ==
  [plugin EXCEPT !.npm = [plugin.npm EXCEPT !.weeklyDownloads = w]]

\* The arrays given to enrichPluginsWithHealthScores: a plugin and, when it
\* has registry stats, a second one that differs in the downloads only.
ScoredArrays ==
  {<<p>> : p \in {q \in ScoredPlugins : q.npm = None}}
    \cup {<<p, WithDownloads(p, w)>> :
            p \in {q \in ScoredPlugins : q.npm # None}, w \in DownloadPool}

HS_Init ==
  /\ hs_now = FirstDay
  /\ hs_plugins \in ScoredArrays
  /\ hs_calls = <<>>

HS_Idle ==
  /\ hs_now = 0
  /\ hs_plugins = <<>>
  /\ hs_calls = <<>>

\* enrichPluginsWithHealthScores(plugins): the loop assigns
\* computeHealthScore(plugin) to every plugin.
HS_Enrich ==
  /\ Len(hs_calls) < MaxPasses
  /\ hs_calls' = Append(hs_calls,
       [at |-> hs_now,
        scores |-> [k \in DOMAIN hs_plugins |-> computeHealthScore(hs_plugins[k], hs_now)]])
  /\ UNCHANGED <<hs_now, hs_plugins>>
  /\ UNCHANGED otherThanHealth

\* Thirty days pass before the next run of the script.
HS_Tick ==
  /\ hs_now + 30 <= FirstDay + 30 * MaxMonths
  /\ hs_now' = hs_now + 30
  /\ UNCHANGED <<hs_plugins, hs_calls>>
  /\ UNCHANGED otherThanHealth

HS_Next ==
  \/ HS_Enrich
  \/ HS_Tick

----------------------------------------------------------------------------
(* extractMajorVersions on its own, over a bounded set of range strings    *)

\* Largest number of `||`-separated alternatives in a range string.
MaxAlternatives == 2

AltPrefixes == { <<>>, <<"^">>, <<" ", ">", "=">>, <<"v">> }
AltCores ==
  { <<"2", ".", "0", ".", "1", "3">>, <<"3", ".", "1", ".", "0">>,
    <<"1", "0", ".", "0", ".", "0">>, <<"*">>, <<>> }
AltSuffixes ==
  { <<>>, <<" ">>, <<"-", "b", "e", "t", "a", ".", "1">>, <<"-", "B", "E", "T", "A">> }

\* One alternative of a range.
Alternatives == {p \o c \o x : p \in AltPrefixes, c \in AltCores, x \in AltSuffixes}

\* The range strings of up to n alternatives.
RECURSIVE RangeStrings(_)
RangeStrings(n) ==
  IF n <= 1 THEN Alternatives
  ELSE RangeStrings(n - 1)
         \cup {r \o S_orOr \o a : r \in RangeStrings(n - 1), a \in Alternatives}

\* The examples of a caret range and of a two-alternative range.
V_caret2013 == <<"^", "2", ".", "0", ".", "1", "3">>
V_2013or310 ==
  <<"2", ".", "0", ".", "1", "3">> \o S_orOr \o <<"3", ".", "1", ".", "0">>

EV_Init ==
  /\ ev_pc = "call"
  /\ ev_version \in RangeStrings(MaxAlternatives)
  /\ ev_result = <<>>

EV_Idle ==
  /\ ev_pc = "idle"
  /\ ev_version = <<>>
  /\ ev_result = <<>>

\* The call extractMajorVersions(version) returns.
EV_Extract ==
  /\ ev_pc = "call"
  /\ ev_result' = extractMajorVersions(ev_version)
  /\ ev_pc' = "returned"
  /\ UNCHANGED ev_version
  /\ UNCHANGED otherThanVersions

----------------------------------------------------------------------------
(* The compare mode of the directory page                                  *)

MaxPluginIds == 5
MaxClosing == 1

\* The ids of the plugins of the page.
PluginIds == 1..MaxPluginIds

\* `next.size < 3`
MaxCompared == 3
CanAdd_Inclusive(next) == Cardinality(next) <= MaxCompared
CanAdd(next) == Cardinality(next) < MaxCompared

\* The updater of handleToggleSelect(id).
ToggleSelected(prev, id) ==
  IF id \in prev THEN prev \ {id}
  ELSE IF CanAdd(prev) THEN prev \cup {id}
  ELSE prev

\* ComparisonView is rendered.
ViewShown == ui_compareMode /\ Cardinality(ui_selectedIds) >= 2

UI_Idle ==
  /\ ui_compareMode = FALSE
  /\ ui_selectedIds = {}
  /\ ui_closing = 0
  /\ ui_last = None

\* The checkbox of a card, rendered in compare mode: handleToggleSelect.
UI_ToggleSelect ==
  /\ ui_compareMode
  /\ \E id \in PluginIds :
       /\ ui_selectedIds' = ToggleSelected(ui_selectedIds, id)
       /\ ui_last' = [op |-> "toggleSelect", id |-> id, before |-> ui_selectedIds]
  /\ UNCHANGED <<ui_compareMode, ui_closing>>
  /\ UNCHANGED otherThanPage

\* The Compare button of the toolbar: handleToggleCompareMode.
UI_ToggleCompareMode ==
  /\ ui_selectedIds' = IF ui_compareMode THEN {} ELSE ui_selectedIds
  /\ ui_compareMode' = ~ui_compareMode
  /\ ui_last' = [op |-> "toggleCompareMode", id |-> 0, before |-> ui_selectedIds]
  /\ UNCHANGED ui_closing
  /\ UNCHANGED otherThanPage

\* The Remove button of a column of ComparisonView: handleRemoveFromComparison.
UI_Remove ==
  /\ ViewShown
  /\ \E id \in ui_selectedIds :
       /\ ui_selectedIds' = ui_selectedIds \ {id}
       /\ ui_last' = [op |-> "remove", id |-> id, before |-> ui_selectedIds]
  /\ UNCHANGED <<ui_compareMode, ui_closing>>
  /\ UNCHANGED otherThanPage

\* The close button of ComparisonView: handleClose starts a timer.
UI_HandleClose ==
  /\ ViewShown
  /\ ui_closing < MaxClosing
  /\ ui_closing' = ui_closing + 1
  /\ ui_last' = [op |-> "handleClose", id |-> 0, before |-> ui_selectedIds]
  /\ UNCHANGED <<ui_compareMode, ui_selectedIds>>
  /\ UNCHANGED otherThanPage

\* The timer fires: onClose.
UI_OnClose ==
  /\ ui_closing > 0
  /\ ui_closing' = ui_closing - 1
  /\ ui_compareMode' = FALSE
  /\ ui_selectedIds' = {}
  /\ ui_last' = [op |-> "onClose", id |-> 0, before |-> ui_selectedIds]
  /\ UNCHANGED otherThanPage

UI_Next ==
  \/ UI_ToggleSelect
  \/ UI_ToggleCompareMode
  \/ UI_Remove
  \/ UI_HandleClose
  \/ UI_OnClose

----------------------------------------------------------------------------
(* The batches of main, fetchPackagesDirectory and enrichPluginsWithNpmData,*)
(* with the calls of a batch returning in any order                        *)

MaxBatchRepos == 11

\* enrichPluginsWithNpmData: batchSize
NpmBatchSize == 10

\* Math.min(i + batchSize, length): the end of the slice that starts at i.
BatchEnd_Whole(i, size, n) == n
BatchEnd(i, size, n) == Min(i + size, n)

\* An entry of the array Promise.all resolves to: not settled yet, settled.
Pending == [done |-> FALSE, value |-> <<>>]
Settled(v) == [done |-> TRUE, value |-> v]
PendingSlots(count) == [k \in 1..count |-> Pending]
Values(results) == [k \in DOMAIN results |-> results[k].value]

\* Promise.all keeps the value of the k-th promise at index k, whenever it
\* settles.
PlaceResult_Arrival(results, k, v) ==
  LET free == CHOOSE j \in DOMAIN results :
                ~results[j].done /\ \A h \in 1..(j - 1) : results[h].done
  IN [results EXCEPT ![free] = Settled(v)]
PlaceResult(results, k, v) == [results EXCEPT ![k] = Settled(v)]

\* The servers' content: repository 1 has a packages directory of six
\* entries, repository 2 one of two; the third manifest of a directory is
\* missing; processRepository catches an exception on repository 4.
BtDirCount(r) == CASE r = 1 -> SubBatchSize + 1 [] r = 2 -> 2 [] OTHER -> 0
BtSubManifest(r, d) == IF d = 3 THEN None ELSE [name |-> <<r, d>>]
BtStars(r) == r % 3
BtPlugin(r, d) == [id |-> <<r, d>>, stars |-> BtStars(r)]
BtRootPlugins(r) == IF r = 4 THEN <<>> ELSE <<BtPlugin(r, 0)>>
BtMemberPlugins(r, pkgs) == [k \in DOMAIN pkgs |-> BtPlugin(r, pkgs[k].name[2])]
BtNpm(plugin) ==
  IF (plugin.id[1] + plugin.id[2]) % 2 = 0 THEN None
  ELSE [weeklyDownloads |-> plugin.id[1]]
BtOfficial == <<[id |-> <<0, 1>>, stars |-> 1]>>

\* A processRepository call that waits for the root manifest.
NewCall == [stage |-> "root", bi |-> 0, out |-> {}, results |-> <<>>, pkgs |-> <<>>]

BT_Idle ==
  /\ bt_pc = "idle"
  /\ bt_n = 0
  /\ bt_i = 0
  /\ bt_calls = <<>>
  /\ bt_results = <<>>
  /\ bt_community = <<>>
  /\ bt_all = <<>>
  /\ bt_j = 0
  /\ bt_queries = {}
  /\ bt_npmResults = <<>>
  /\ bt_reordered = FALSE

BT_Init ==
  /\ bt_pc = "process"
  /\ bt_n \in {MaxBatchRepos - 1, MaxBatchRepos}
  /\ bt_i = 0
  /\ bt_calls = <<>>
  /\ bt_results = <<>>
  /\ bt_community = <<>>
  /\ bt_all = <<>>
  /\ bt_j = 0
  /\ bt_queries = {}
  /\ bt_npmResults = <<>>
  /\ bt_reordered = FALSE

\* batch.map(processRepository): every call of the slice is started.
BT_StartBatch ==
  /\ bt_pc = "process"
  /\ DOMAIN bt_calls = {}
  /\ bt_i < bt_n
  /\ bt_calls' = [r \in (bt_i + 1)..BatchEnd(bt_i, RepoBatchSize, bt_n) |-> NewCall]
  /\ bt_results' = PendingSlots(BatchEnd(bt_i, RepoBatchSize, bt_n) - bt_i)
  /\ UNCHANGED <<bt_pc, bt_n, bt_i, bt_community, bt_all, bt_j, bt_queries,
                 bt_npmResults, bt_reordered>>
  /\ UNCHANGED otherThanBatches

\* A call of the batch issued before r has not returned.
EarlierCallRunning(r) ==
  \E q \in DOMAIN bt_calls : q < r /\ bt_calls[q].stage # "done"

\* The root manifest of a repository without packages directory arrives:
\* the call returns its plugins.
BT_ReturnRoot ==
  /\ bt_pc = "process"
  /\ \E r \in DOMAIN bt_calls :
       /\ bt_calls[r].stage = "root"
       /\ BtDirCount(r) = 0
       /\ bt_calls' = [bt_calls EXCEPT ![r].stage = "done"]
       /\ bt_results' = PlaceResult(bt_results, r - bt_i, BtRootPlugins(r))
       /\ bt_reordered' = (bt_reordered \/ EarlierCallRunning(r))
  /\ UNCHANGED <<bt_pc, bt_n, bt_i, bt_community, bt_all, bt_j, bt_queries, bt_npmResults>>
  /\ UNCHANGED otherThanBatches

\* The root manifest and the listing of packages/ arrive: the first batch of
\* sub-package manifests is requested.
BT_ListPackages ==
  /\ bt_pc = "process"
  /\ \E r \in DOMAIN bt_calls :
       /\ bt_calls[r].stage = "root"
       /\ BtDirCount(r) > 0
       /\ bt_calls' = [bt_calls EXCEPT ![r] =
            [stage |-> "members", bi |-> 0,
             out |-> 1..BatchEnd(0, SubBatchSize, BtDirCount(r)),
             results |-> PendingSlots(BatchEnd(0, SubBatchSize, BtDirCount(r))),
             pkgs |-> <<>>]]
  /\ UNCHANGED <<bt_pc, bt_n, bt_i, bt_results, bt_community, bt_all, bt_j, bt_queries,
                 bt_npmResults, bt_reordered>>
  /\ UNCHANGED otherThanBatches

\* One sub-package manifest request of the batch returns.
BT_SubReturns ==
  /\ bt_pc = "process"
  /\ \E r \in DOMAIN bt_calls :
       \E d \in bt_calls[r].out :
         /\ bt_calls' = [bt_calls EXCEPT
              ![r].out = @ \ {d},
              ![r].results = PlaceResult(@, d - bt_calls[r].bi, BtSubManifest(r, d))]
         /\ bt_reordered' = (bt_reordered \/ \E e \in bt_calls[r].out : e < d)
  /\ UNCHANGED <<bt_pc, bt_n, bt_i, bt_results, bt_community, bt_all, bt_j, bt_queries,
                 bt_npmResults>>
  /\ UNCHANGED otherThanBatches

\* packages.push(...results.filter(non-null)) of the call for r.
PackagesAfterBatch(r) ==
  bt_calls[r].pkgs \o SelectSeq(Values(bt_calls[r].results), LAMBDA v : v # None)

\* Promise.all of a sub-package batch resolved and directories are left: the
\* next batch is requested.
BT_NextSubBatch ==
  /\ bt_pc = "process"
  /\ \E r \in DOMAIN bt_calls :
       LET c == bt_calls[r]
           bi == c.bi + SubBatchSize
       IN /\ c.stage = "members"
          /\ c.out = {}
          /\ bi < BtDirCount(r)
          /\ bt_calls' = [bt_calls EXCEPT ![r] =
               [stage |-> "members", bi |-> bi,
                out |-> (bi + 1)..BatchEnd(bi, SubBatchSize, BtDirCount(r)),
                results |-> PendingSlots(BatchEnd(bi, SubBatchSize, BtDirCount(r)) - bi),
                pkgs |-> PackagesAfterBatch(r)]]
  /\ UNCHANGED <<bt_pc, bt_n, bt_i, bt_results, bt_community, bt_all, bt_j, bt_queries,
                 bt_npmResults, bt_reordered>>
  /\ UNCHANGED otherThanBatches

\* Promise.all of the last sub-package batch resolved: the call returns one
\* plugin per package.
BT_ReturnMembers ==
  /\ bt_pc = "process"
  /\ \E r \in DOMAIN bt_calls :
       LET c == bt_calls[r] IN
         /\ c.stage = "members"
         /\ c.out = {}
         /\ ~(c.bi + SubBatchSize < BtDirCount(r))
         /\ bt_calls' = [bt_calls EXCEPT ![r].stage = "done",
                                         ![r].pkgs = PackagesAfterBatch(r)]
         /\ bt_results' = PlaceResult(bt_results, r - bt_i,
                                      BtMemberPlugins(r, PackagesAfterBatch(r)))
         /\ bt_reordered' = (bt_reordered \/ EarlierCallRunning(r))
  /\ UNCHANGED <<bt_pc, bt_n, bt_i, bt_community, bt_all, bt_j, bt_queries, bt_npmResults>>
  /\ UNCHANGED otherThanBatches

\* Promise.all of the batch resolved: communityPlugins.push(...results.flat()).
BT_EndBatch ==
  /\ bt_pc = "process"
  /\ DOMAIN bt_calls # {}
  /\ \A r \in DOMAIN bt_calls : bt_calls[r].stage = "done"
  /\ bt_community' = bt_community \o Flat(Values(bt_results))
  /\ bt_i' = bt_i + RepoBatchSize
  /\ bt_calls' = <<>>
  /\ bt_results' = <<>>
  /\ UNCHANGED <<bt_pc, bt_n, bt_all, bt_j, bt_queries, bt_npmResults, bt_reordered>>
  /\ UNCHANGED otherThanBatches

\* The loop is over: allPlugins = [...officialPlugins, ...communityPlugins].
BT_Merge ==
  /\ bt_pc = "process"
  /\ DOMAIN bt_calls = {}
  /\ ~(bt_i < bt_n)
  /\ bt_all' = BtOfficial \o bt_community
  /\ bt_pc' = "enrich"
  /\ UNCHANGED <<bt_n, bt_i, bt_calls, bt_results, bt_community, bt_j, bt_queries,
                 bt_npmResults, bt_reordered>>
  /\ UNCHANGED otherThanBatches

\* batch.map(async plugin => fetchNpmData(...)): every query of the slice is
\* started (every package name of this site is valid).
BT_StartQueries ==
  /\ bt_pc = "enrich"
  /\ bt_npmResults = <<>>
  /\ bt_j < Len(bt_all)
  /\ bt_queries' = (bt_j + 1)..BatchEnd(bt_j, NpmBatchSize, Len(bt_all))
  /\ bt_npmResults' = PendingSlots(BatchEnd(bt_j, NpmBatchSize, Len(bt_all)) - bt_j)
  /\ UNCHANGED <<bt_pc, bt_n, bt_i, bt_calls, bt_results, bt_community, bt_all, bt_j,
                 bt_reordered>>
  /\ UNCHANGED otherThanBatches

\* fetchNpmData returns for one plugin: { plugin, data }.
BT_QueryReturns ==
  /\ bt_pc = "enrich"
  /\ \E k \in bt_queries :
       /\ bt_queries' = bt_queries \ {k}
       /\ bt_npmResults' = PlaceResult(bt_npmResults, k - bt_j,
                                       [plugin |-> k, data |-> BtNpm(bt_all[k])])
       /\ bt_reordered' = (bt_reordered \/ \E q \in bt_queries : q < k)
  /\ UNCHANGED <<bt_pc, bt_n, bt_i, bt_calls, bt_results, bt_community, bt_all, bt_j>>
  /\ UNCHANGED otherThanBatches

\* for (const { plugin, data } of results) if (data) plugin.npm = data
AssignNpm(plugins, results) ==
  [k \in DOMAIN plugins |->
     IF \E h \in DOMAIN results : results[h].plugin = k /\ results[h].data # None
       THEN Merge(plugins[k],
                  [npm |-> (CHOOSE res \in Range(results) : res.plugin = k).data])
       ELSE plugins[k]]

\* Promise.all of the enrichment batch resolved.
BT_EndQueries ==
  /\ bt_pc = "enrich"
  /\ bt_npmResults # <<>>
  /\ bt_queries = {}
  /\ bt_all' = AssignNpm(bt_all, Values(bt_npmResults))
  /\ bt_j' = bt_j + NpmBatchSize
  /\ bt_npmResults' = <<>>
  /\ UNCHANGED <<bt_pc, bt_n, bt_i, bt_calls, bt_results, bt_community, bt_queries,
                 bt_reordered>>
  /\ UNCHANGED otherThanBatches

\* allPlugins.sort((a, b) => b.stars - a.stars), then the file is written.
BT_Write ==
  /\ bt_pc = "enrich"
  /\ bt_npmResults = <<>>
  /\ ~(bt_j < Len(bt_all))
  /\ bt_all' = SortByStars(bt_all)
  /\ bt_pc' = "written"
  /\ UNCHANGED <<bt_n, bt_i, bt_calls, bt_results, bt_community, bt_j, bt_queries,
                 bt_npmResults, bt_reordered>>
  /\ UNCHANGED otherThanBatches

BT_Next ==
  \/ BT_StartBatch
  \/ BT_ReturnRoot
  \/ BT_ListPackages
  \/ BT_SubReturns
  \/ BT_NextSubBatch
  \/ BT_ReturnMembers
  \/ BT_EndBatch
  \/ BT_Merge
  \/ BT_StartQueries
  \/ BT_QueryReturns
  \/ BT_EndQueries
  \/ BT_Write

----------------------------------------------------------------------------
(* Specifications                                                          *)

vars == <<fwVars, prVars, mVars, pureVars>>

\* The pure functions are not being exercised on their own.
PureIdle == EV_Idle /\ HS_Idle /\ UI_Idle /\ BT_Idle

\* fetchWithRetry alone.
InitFetch == FW_Init /\ PR_Idle /\ M_Idle /\ PureIdle
SpecFetch == InitFetch /\ [][FW_Next]_vars

\* processRepository alone.
InitRepo == SR_Init /\ FW_Idle /\ M_Idle /\ PureIdle
SpecRepo == InitRepo /\ [][SR_Next]_vars

\* A run of main.
Init == M_Init /\ PR_Idle /\ FW_Idle /\ PureIdle
Next == M_Next
Spec == Init /\ [][Next]_vars

\* extractMajorVersions alone.
InitVersions == EV_Init /\ HS_Idle /\ UI_Idle /\ BT_Idle /\ FW_Idle /\ PR_Idle /\ M_Idle
NextVersions == EV_Extract
SpecVersions == InitVersions /\ [][NextVersions]_vars

\* The health scorer alone.
InitHealth == HS_Init /\ EV_Idle /\ UI_Idle /\ BT_Idle /\ FW_Idle /\ PR_Idle /\ M_Idle
SpecHealth == InitHealth /\ [][HS_Next]_vars

\* The compare mode of the page alone.
InitPage == UI_Idle /\ EV_Idle /\ HS_Idle /\ BT_Idle /\ FW_Idle /\ PR_Idle /\ M_Idle
SpecPage == InitPage /\ [][UI_Next]_vars

\* The batches of a run alone.
InitBatches == BT_Init /\ EV_Idle /\ HS_Idle /\ UI_Idle /\ FW_Idle /\ PR_Idle /\ M_Idle
SpecBatches == InitBatches /\ [][BT_Next]_vars

----------------------------------------------------------------------------
(* Properties of fetchWithRetry, checked under SpecFetch.                  *)

FW_Classes == [j \in DOMAIN fw_resps |-> Classify(fw_resps[j])]

FW_SleepAfter(j) == {e \in Range(fw_sleeps) : e.after = j}

\* C1: with maxRetries = 3, a rate-limited 403 consumes no retry attempt:
\* as long as every response so far was a rate-limited 403, the call has
\* not raised the retry-exhaustion error (so a 2xx that follows any number
\* of rate-limited responses is still requested and returned).
C1_RateLimitConsumesNoAttempt ==
  (fw_maxRetries = DefaultMaxRetries
     /\ \A j \in DOMAIN fw_resps : FW_Classes[j] = "ratelimit")
    => fw_pc # "thrown"

\* C3: when the first response is a 404, whatever its rate-limit headers,
\* the call has returned that response after exactly one request, without
\* sleeping and without raising.
C3_NotFoundReturnsAtOnce ==
  (Len(fw_resps) >= 1 /\ fw_resps[1].status = 404)
    => /\ fw_pc = "returned"
       /\ fw_result = fw_resps[1]
       /\ Len(fw_reqTimes) = 1
       /\ fw_sleeps = <<>>
       /\ fw_now = fw_reqTimes[1]

C3_Witness ==
  /\ fw_pc = "returned"
  /\ Len(fw_resps) = 1
  /\ fw_resps[1].status = 404
  /\ fw_resps[1].remaining = <<"0">>
  /\ fw_resps[1].reset # Null

\* C4: after a 403 with x-ratelimit-remaining '0' and reset timestamp R
\* (seconds) the sleep lasts max(R*1000 - now + 1000, 0) ms, and no later
\* request is issued before time R*1000 ms.
C4_RateLimitSleepReachesReset ==
  \A j \in DOMAIN fw_resps :
    FW_Classes[j] = "ratelimit" =>
      LET R == ParseInt(fw_resps[j].reset) IN
        /\ FW_SleepAfter(j) =
             {[after |-> j, ms |-> Max(R * 1000 - fw_reqTimes[j] + 1000, 0)]}
        /\ \A k \in DOMAIN fw_reqTimes : k > j => fw_reqTimes[k] >= R * 1000
        /\ fw_now >= R * 1000

C4_Witness ==
  \E j \in DOMAIN fw_resps :
    /\ FW_Classes[j] = "ratelimit"
    /\ j + 1 \in DOMAIN fw_reqTimes
    /\ ParseInt(fw_resps[j].reset) * 1000 > fw_reqTimes[j]
    /\ fw_reqTimes[j + 1] = ParseInt(fw_resps[j].reset) * 1000 + 1000

----------------------------------------------------------------------------
(* Properties of processRepository, checked under SpecRepo.                *)

\* The version a manifest resolves, spelled out: peer, then runtime, then
\* development dependency.
ResolvedVersion(m) ==
  IF Truthy(m.peer) THEN m.peer
  ELSE IF Truthy(m.dep) THEN m.dep
  ELSE IF Truthy(m.dev) THEN m.dev
  ELSE Null

\* The packages/ subdirectories whose manifest was fetched, and those among
\* them whose manifest resolves a version, in listing order.
PR_Fetched == SelectSeq(pr_answers, LAMBDA r : r.packageJson # None)
PR_Qualifying ==
  SelectSeq(PR_Fetched, LAMBDA r : Truthy(ResolvedVersion(r.packageJson)))

PR_RootResolves == pr_root # None /\ Truthy(ResolvedVersion(pr_root))

\* C8: when the root manifest resolves a version range, packages/ is never
\* listed and processRepository yields exactly one Plugin, with id
\* `{repoId}-root`, that range as payloadVersion and its parsed majors as
\* payloadVersionMajor (`^3.2.0` gives [3]).
C8_VersionedRootYieldsOneRootPlugin ==
  (PR_RootResolves /\ ResolvedVersion(pr_root) # NonString) =>
    /\ "listing" \notin pr_calls
    /\ "subManifest" \notin pr_calls
    /\ pr_pc = "done" =>
         /\ Len(pr_plugins) = 1
         /\ pr_plugins[1].id = IdText(pr_repo.id) \o <<"-", "r", "o", "o", "t">>
         /\ pr_plugins[1].payloadVersion = ResolvedVersion(pr_root)
         /\ pr_plugins[1].payloadVersionMajor =
              extractMajorVersions(ResolvedVersion(pr_root))
         /\ ResolvedVersion(pr_root) = V_caret320 =>
              pr_plugins[1].payloadVersionMajor = <<3>>
         /\ ResolvedVersion(pr_root) = V_either =>
              pr_plugins[1].payloadVersionMajor = <<2, 3>>

C8_Witness ==
  /\ pr_pc = "done"
  /\ pr_root # None
  /\ pr_root.peer = V_caret320
  /\ Len(pr_plugins) = 1
  /\ pr_plugins[1].payloadVersionMajor = <<3>>
  /\ pr_plugins[1].id = <<"1", "-", "r", "o", "o", "t">>

\* C9 as stated: with a root manifest that resolves no version and at least
\* one packages/ subdirectory whose manifest resolves one, the Plugins are
\* exactly those subdirectories, one each; a subdirectory whose manifest
\* resolves no version yields no Plugin.
C9_OnlyVersionedSubdirsYieldPlugins ==
  (pr_pc = "done" /\ pr_root # None /\ ~PR_RootResolves /\ ~pr_threw
     /\ PR_Qualifying # <<>>) =>
    /\ Len(pr_plugins) = Len(PR_Qualifying)
    /\ \A k \in DOMAIN pr_plugins :
         /\ pr_plugins[k].id = IdText(pr_repo.id) \o <<"-">> \o PR_Qualifying[k].name
         /\ pr_plugins[k].collection = pr_repo.name

\* C9 amended: with a root manifest that resolves no version and at least
\* one packages/ subdirectory whose manifest could be fetched, the Plugins
\* are exactly those subdirectories in listing order, one each, with
\* collection the repository name and id `{repoId}-{dirName}`, whether or
\* not the manifest resolves a version (without one: payloadVersion null and
\* payloadVersionMajor [0]); only a subdirectory without a fetchable
\* manifest yields no Plugin.
C9_EveryFetchedSubdirYieldsPlugin ==
  (pr_pc = "done" /\ pr_root # None /\ ~PR_RootResolves /\ ~pr_threw
     /\ PR_Fetched # <<>>) =>
    /\ Len(pr_plugins) = Len(PR_Fetched)
    /\ \A k \in DOMAIN pr_plugins :
         LET v == ResolvedVersion(PR_Fetched[k].packageJson) IN
         /\ pr_plugins[k].id = IdText(pr_repo.id) \o <<"-">> \o PR_Fetched[k].name
         /\ pr_plugins[k].collection = pr_repo.name
         /\ pr_plugins[k].payloadVersion = v
         /\ ~Truthy(v) => pr_plugins[k].payloadVersionMajor = <<0>>

C9_Witness ==
  /\ pr_pc = "done"
  /\ pr_root # None
  /\ ~PR_RootResolves
  /\ Len(pr_answers) = 2
  /\ Len(PR_Fetched) = 2
  /\ Len(PR_Qualifying) = 1
  /\ Len(pr_plugins) = 2

PR_NothingResolves ==
  /\ ~PR_RootResolves
  /\ PR_Qualifying = <<>>

\* C10 as stated: with no resolvable root version and no packages/
\* subdirectory whose manifest resolves one, exactly one Plugin is yielded,
\* with payloadVersion null and payloadVersionMajor [0].
C10_ExactlyOneUnknownPlugin ==
  (pr_pc = "done" /\ PR_NothingResolves) =>
    /\ Len(pr_plugins) = 1
    /\ pr_plugins[1].payloadVersion = Null
    /\ pr_plugins[1].payloadVersionMajor = <<0>>

\* C10 amended: in that case at least one Plugin is yielded, never zero,
\* and every Plugin yielded has payloadVersion null and payloadVersionMajor
\* [0]: exactly one, with id `{repoId}-root`, when no packages/ subdirectory
\* has a fetchable manifest, and otherwise one per subdirectory with a
\* fetchable manifest.
C10_AtLeastOneUnknownPlugin ==
  (pr_pc = "done" /\ PR_NothingResolves) =>
    /\ ~pr_threw
    /\ Len(pr_plugins) >= 1
    /\ \A k \in DOMAIN pr_plugins :
         /\ pr_plugins[k].payloadVersion = Null
         /\ pr_plugins[k].payloadVersionMajor = <<0>>
    /\ PR_Fetched = <<>> =>
         /\ Len(pr_plugins) = 1
         /\ pr_plugins[1].id = IdText(pr_repo.id) \o <<"-", "r", "o", "o", "t">>
    /\ PR_Fetched # <<>> => Len(pr_plugins) = Len(PR_Fetched)

C10_Witness ==
  /\ pr_pc = "done"
  /\ pr_root # None
  /\ PR_NothingResolves
  /\ Len(PR_Fetched) = 2
  /\ Len(pr_plugins) = 2

----------------------------------------------------------------------------
(* Claims about the snapshot main writes, checked under Spec               *)

\* The records main wrote to the file.
Written == m_snapshot.plugins

\* A record of fetchOfficialPayloadPlugins: its id is official-{dirName};
\* the ids of processRepository start with the digits of the repository id.
IsOfficialRecord(p) == StartsWith(p.id, S_official)

\* C2: every Plugin record of the written snapshot has a non-empty
\* payloadVersionMajor array, whatever range string its manifest declares.
C2_MajorsNeverEmpty ==
  m_pc = "done" => \A k \in DOMAIN Written : Written[k].payloadVersionMajor # <<>>

\* C6: the written snapshot never holds an official record and a community
\* record whose package names are equal ignoring case, and every official
\* record is kept.
C6_OfficialWinsNameCollision ==
  m_pc = "done" =>
    /\ \A k \in DOMAIN m_officialPlugins : m_officialPlugins[k] \in Range(Written)
    /\ \A p, q \in Range(Written) :
         (IsOfficialRecord(p) /\ ~IsOfficialRecord(q) /\ Truthy(q.packageName))
           => ToLowerCase(p.packageName) # ToLowerCase(q.packageName)

\* A run in which a community record was dropped for an official record
\* whose package name differs from its own only in case.
C6_Witness ==
  /\ m_pc = "done"
  /\ \E j \in DOMAIN m_officialPlugins, k \in DOMAIN m_communityPlugins :
       LET o == m_officialPlugins[j]
           c == m_communityPlugins[k]
       IN /\ Truthy(c.packageName)
          /\ c.packageName # o.packageName
          /\ ToLowerCase(c.packageName) = ToLowerCase(o.packageName)
          /\ o \in Range(Written)
          /\ c \notin Range(Written)

\* C7: the ids of the records of the written snapshot are pairwise distinct,
\* also when a repository appeared on more than one search page.
C7_IdsDistinct ==
  m_pc = "done" =>
    \A j, k \in DOMAIN Written : j # k => Written[j].id # Written[k].id

----------------------------------------------------------------------------
(* Claims about extractMajorVersions, checked under SpecVersions           *)

EV_Returned == ev_pc = "returned"

\* The string contains `beta` in some letter case.
EV_HasBeta ==
  \E k \in 1..Len(ev_version) :
    /\ k + 3 <= Len(ev_version)
    /\ ev_version[k] \in {"b", "B"}
    /\ ev_version[k + 1] \in {"e", "E"}
    /\ ev_version[k + 2] \in {"t", "T"}
    /\ ev_version[k + 3] \in {"a", "A"}

\* C11: a range string containing `beta` in any letter case gives exactly
\* [3], whatever numbers it contains.
C11_BetaGivesThree ==
  (EV_Returned /\ EV_HasBeta) => ev_result = <<3>>

\* The call returned for an upper-case BETA on a major other than 3.
C11_Witness ==
  /\ EV_Returned
  /\ EV_HasBeta
  /\ ~Includes(ev_version, S_beta)
  /\ ev_version[1] = "2"
  /\ ev_result = <<3>>

\* The `||`-separated alternatives of the string, each trimmed, stripped of
\* the characters ^ ~ > = < and trimmed again.
EV_Cleaned ==
  [k \in DOMAIN Split(ev_version, S_orOr) |->
     Trim(RemoveChars(Trim(Split(ev_version, S_orOr)[k]), Comparators))]

\* The integers given by the leading digit runs of the alternatives.
EV_LeadingNumbers ==
  {ParseInt(EV_Cleaned[k]) : k \in {j \in DOMAIN EV_Cleaned : DigitRun(EV_Cleaned[j]) > 0}}

EV_StrictlyAscending ==
  \A j, k \in DOMAIN ev_result : j < k => ev_result[j] < ev_result[k]

\* C12: without `beta` the result is the strictly ascending, duplicate-free
\* list of the leading numbers of the alternatives: ^2.0.13 gives [2],
\* 2.0.13||3.1.0 gives [2,3], an alternative without a leading digit gives
\* nothing.
C12_AscendingLeadingNumbers ==
  (EV_Returned /\ ~EV_HasBeta) =>
    /\ EV_StrictlyAscending
    /\ Range(ev_result) = EV_LeadingNumbers
    /\ (ev_version = V_caret2013 => ev_result = <<2>>)
    /\ (ev_version = V_2013or310 => ev_result = <<2, 3>>)

\* The call returned [2, 3] for a string that names 3 before 2.
C12_Witness ==
  /\ EV_Returned
  /\ ~EV_HasBeta
  /\ Len(EV_Cleaned) = 2
  /\ DigitRun(EV_Cleaned[1]) > 0 /\ ParseInt(EV_Cleaned[1]) = 3
  /\ DigitRun(EV_Cleaned[2]) > 0 /\ ParseInt(EV_Cleaned[2]) = 2
  /\ ev_result = <<2, 3>>

\* C13 as stated: a non-empty string with a digit anywhere never gives an
\* empty array.
C13_DigitAnywhereGivesMajor ==
  (EV_Returned /\ ev_version # <<>> /\ \E k \in DOMAIN ev_version : ev_version[k] \in Digits)
    => ev_result # <<>>

\* C13, as the function behaves: the array is non-empty exactly when the
\* string contains `beta` or some alternative, once trimmed and stripped of
\* comparators, starts with a digit.
C13_LeadingDigitGivesMajor ==
  EV_Returned => (ev_result # <<>> <=> (EV_HasBeta \/ EV_LeadingNumbers # {}))

\* The call returned a major for a string whose digits come after a
\* comparator.
C13_Witness ==
  /\ EV_Returned
  /\ ~EV_HasBeta
  /\ ev_version # <<>>
  /\ ev_version[1] = "^"
  /\ ev_result # <<>>

----------------------------------------------------------------------------
(* Claims about computeHealthScore, checked under SpecHealth               *)

\* The scores of every pass, as [plugin, at, score] records.
HS_Scored ==
  {[plugin |-> hs_plugins[k], at |-> hs_calls[j].at, score |-> hs_calls[j].scores[k]] :
     j \in DOMAIN hs_calls, k \in DOMAIN hs_plugins}

\* C14: every score is an integer from 0 to 100, with or without registry
\* stats, also when the sum of the contributions exceeds 100.
C14_ScoreWithinRange ==
  \A c \in HS_Scored : c.score \in 0..100

\* A plugin whose contributions add up to more than 100 was scored 100.
C14_Witness ==
  \E c \in HS_Scored :
    /\ ~c.plugin.isArchived
    /\ c.plugin.npm # None
    /\ HealthSum(c.plugin, c.at) > 100
    /\ c.score = 100

\* C15: two calls on an identical Plugin value return the identical
\* integer, whenever they are made.
C15_SameValueSameScore ==
  \A c, d \in HS_Scored : c.plugin = d.plugin => c.score = d.score

\* C16: an archived plugin scores 0 whatever its other fields are.
C16_ArchivedScoresZero ==
  \A c \in HS_Scored : c.plugin.isArchived => c.score = 0

\* An archived official plugin whose contributions add up to more than 100
\* was scored 0.
C16_Witness ==
  \E c \in HS_Scored :
    /\ c.plugin.isArchived
    /\ c.plugin.isOfficial
    /\ Truthy(c.plugin.license)
    /\ HealthSum(c.plugin, c.at) > 100
    /\ c.score = 0

\* Two records that differ in the weekly download count at most.
HS_SameButDownloads(p, q) ==
  /\ p.npm # None
  /\ q.npm # None
  /\ WithDownloads(p, q.npm.weeklyDownloads) = q

\* C17: of two plugins that differ in the weekly downloads only and are
\* scored at the same time, the one with more downloads scores at least as
\* much.
C17_MoreDownloadsNeverLower ==
  \A c, d \in HS_Scored :
    (/\ c.at = d.at
     /\ HS_SameButDownloads(c.plugin, d.plugin)
     /\ c.plugin.npm.weeklyDownloads <= d.plugin.npm.weeklyDownloads)
      => c.score <= d.score

\* A plugin with ten times the downloads of its twin scored more than it in
\* the same pass.
C17_Witness ==
  \E c, d \in HS_Scored :
    /\ c.at = d.at
    /\ HS_SameButDownloads(c.plugin, d.plugin)
    /\ c.plugin.npm.weeklyDownloads > 0
    /\ d.plugin.npm.weeklyDownloads = 10 * c.plugin.npm.weeklyDownloads
    /\ ~c.plugin.isArchived
    /\ c.score < d.score

----------------------------------------------------------------------------
(* Claims about the failures of a run of main, checked under Spec          *)

\* The stages that come before the writer.
StagesBeforeWrite == <<"official", "search", "process", "merge", "enrich", "score">>

\* The run ended in a fatal error.
M_Fatal == m_error # None

\* C18: a run that fails before the writer leaves the previous snapshot as
\* it was; the snapshot is written at most once, as the last step, after
\* discovery, extraction, merge, enrichment and scoring have completed.
C18_SnapshotWrittenLastOrNever ==
  /\ M_Fatal => m_snapshot = PreviousSnapshot
  /\ m_snapshot # PreviousSnapshot =>
       /\ m_stages = Append(StagesBeforeWrite, "write")
       /\ m_pc \in {"done", "exited"}
  /\ m_snapshot = PreviousSnapshot => m_stages = SubSeq(StagesBeforeWrite, 1, Len(m_stages))

\* A run failed in the search after official plugins and a first page of
\* repositories had been collected, and the file is as before.
C18_Witness ==
  /\ m_pc = "exited"
  /\ M_Fatal
  /\ m_officialPlugins # <<>>
  /\ m_repos # <<>>
  /\ m_snapshot = PreviousSnapshot

\* C19: a run that ends in a fatal error ends the process with a non-zero
\* exit status.
C19_FatalRunExitsNonZero ==
  (m_pc = "exited" /\ M_Fatal) => m_exitCode # 0

\* C20: a failure of the discovery call or of the official enumeration is
\* fatal: no snapshot is written after it.
C20_TopLevelFailureWritesNothing ==
  (M_Fatal \/ m_officialCaught) => m_snapshot = PreviousSnapshot

----------------------------------------------------------------------------
(* Claims about failures of one item, checked under Spec                   *)

\* The plugins processRepository pushed for the repository.
PluginsOf(repo, plugins) ==
  SelectSeq(plugins, LAMBDA p : StartsWith(p.id, IdText(repo.id) \o <<"-">>))

\* The members of pr_packages that come before the first one whose version
\* makes extractMajorVersions throw.
MembersBeforeThrow ==
  {k \in DOMAIN pr_packages :
     \A j \in 1..k : getPayloadVersion(pr_packages[j].packageJson) # NonString}

\* A member of the repository declares a version that is not a string.
SiteThrows(repo) ==
  \E e \in Range(SiteListing(repo).contents) :
    /\ e.type = "dir"
    /\ SiteSubManifest(repo, e.name) # None
    /\ getPayloadVersion(SiteSubManifest(repo, e.name)) = NonString

\* The package names the registry knows that no record of allPlugins
\* carries statistics for.
UnenrichedKnownNames ==
  {pl.packageName : pl \in {x \in Range(m_allPlugins) :
      /\ isValidPackageName(x.packageName)
      /\ SiteNpm(x.packageName) # None
      /\ "npm" \notin DOMAIN x}}

\* C21: an exception while one repository is processed is caught inside
\* processRepository, which returns the plugins pushed so far, and a failed
\* registry query leaves only that package without statistics; every other
\* repository and package of the batch is still processed, and once the
\* search has returned the run cannot fail: it ends only after the writer.
C21_ItemFailuresConfined ==
  /\ pr_threw =>
       /\ pr_pc = "done"
       /\ m_error = None
       /\ pr_packages # <<>> => Len(pr_plugins) = Cardinality(MembersBeforeThrow)
  /\ M_Fatal => "search" \notin Range(m_stages)
  /\ "process" \in Range(m_stages) =>
       \A k \in DOMAIN m_repos : PluginsOf(m_repos[k], m_communityPlugins) # <<>>
  /\ "enrich" \in Range(m_stages) => Cardinality(UnenrichedKnownNames) <= 1
  /\ (m_pc = "exited" /\ "search" \in Range(m_stages)) => m_snapshot # PreviousSnapshot

\* The snapshot was written by a run in which processRepository caught an
\* exception on the third member of a repository, after pushing two, and the
\* registry query failed for one package while another one got statistics.
C21_Witness ==
  /\ m_pc = "done"
  /\ \E k \in DOMAIN m_repos :
       /\ SiteThrows(m_repos[k])
       /\ Len(PluginsOf(m_repos[k], m_communityPlugins)) = 2
  /\ \E j \in DOMAIN m_repos : m_repos[j].id = 1 /\ PluginsOf(m_repos[j], Written) # <<>>
  /\ Cardinality(UnenrichedKnownNames) = 1
  /\ \E p \in Range(Written) : "npm" \in DOMAIN p

----------------------------------------------------------------------------
(* Claims about the compare mode of the page, checked under SpecPage       *)

\* C22: after any sequence of selections, deselections, removals and
\* compare-mode toggles at most three plugin ids are selected, and the
\* checkbox of a fourth plugin leaves the selection as it was.
C22_AtMostThreeSelected ==
  /\ Cardinality(ui_selectedIds) <= 3
  /\ (/\ ui_last # None
      /\ ui_last.op = "toggleSelect"
      /\ ui_last.id \notin ui_last.before
      /\ Cardinality(ui_last.before) = 3) => ui_selectedIds = ui_last.before

\* The checkbox of a fourth plugin was clicked with three plugins selected.
C22_Witness ==
  /\ ui_last # None
  /\ ui_last.op = "toggleSelect"
  /\ ui_last.id \notin ui_last.before
  /\ Cardinality(ui_last.before) = 3
  /\ ui_selectedIds = ui_last.before
  /\ ui_compareMode

----------------------------------------------------------------------------
(* Claims about searchRepositories, checked under Spec                     *)

\* The non-archived items of the first k pages received, in page order.
RECURSIVE ActiveItems(_)
ActiveItems(k) ==
  IF k = 0 THEN <<>>
  ELSE ActiveItems(k - 1) \o SelectSeq(m_pages[k].items, LAMBDA r : ~r.archived)

\* The page brought the accumulated count to the cap, or was not full.
StopsAt(k) ==
  Len(ActiveItems(k)) >= ResultCap \/ Len(m_pages[k].items) < PageSize

SearchReturned == "search" \in Range(m_stages)

\* C23: searchRepositories requests the pages 1, 2, ... in order, returns
\* exactly the non-archived items of the pages it received, in page order,
\* and returns after the first page that brings the accumulated count to the
\* cap or is not full; the number of pages is bounded by the result list.
C23_PagesInOrderUntilStop ==
  /\ \A k \in DOMAIN m_pages : m_pages[k].page = k
  /\ \A k \in DOMAIN m_pages : ~m_pages[k].ok => (k = Len(m_pages) /\ M_Fatal)
  /\ m_repos = ActiveItems(Len(m_pages))
  /\ \A k \in 1..(Len(m_pages) - 1) : ~StopsAt(k)
  /\ m_pc = "search" => (m_page = Len(m_pages) + 1 /\ \A k \in DOMAIN m_pages : ~StopsAt(k))
  /\ SearchReturned =>
       (m_pages # <<>> /\ m_pages[Len(m_pages)].ok /\ StopsAt(Len(m_pages)))
  /\ Len(m_pages) <= (Len(srv_results) \div PageSize) + 1

\* The search returned after a full page brought the count to the cap, with
\* the items of two pages in page order.
C23_Witness ==
  /\ SearchReturned
  /\ Len(m_pages) = 2
  /\ Len(m_pages[2].items) = PageSize
  /\ Len(m_repos) >= ResultCap
  /\ m_repos = m_pages[1].items \o m_pages[2].items

\* C30: searchRepositories never requests a page beyond the one at which
\* the result cap is reached with full pages (the 10th, for pages of 100
\* and a cap of 1000), whatever the mix of archived and other repositories.
C30_NoPageBeyondCap ==
  \A k \in DOMAIN m_pages : (m_pages[k].page - 1) * PageSize < ResultCap

----------------------------------------------------------------------------
(* Claims about fetchOfficialPayloadPlugins, checked under Spec            *)

\* The records pushed for the directory.
OfficialRecordsOf(dirName) ==
  {j \in DOMAIN m_officialPlugins : m_officialPlugins[j].id = S_official \o dirName}

\* C24: once the enumeration of a listed packages/ directory is over, with
\* the metadata of the repository at hand, there is exactly one record for
\* every subdirectory whose name starts with plugin-, with id
\* official-{dirName}, isOfficial, collection payload, a license, and
\* payloadVersionMajor [3] when no version is declared.
C24_OnePluginPerPluginDir ==
  (/\ "official" \in Range(m_stages)
   /\ m_pluginDirs # <<>>
   /\ m_payloadRepo # None) =>
    \A k \in DOMAIN m_pluginDirs :
      /\ Cardinality(OfficialRecordsOf(m_pluginDirs[k].name)) = 1
      /\ \A j \in OfficialRecordsOf(m_pluginDirs[k].name) :
           LET p == m_officialPlugins[j] IN
             /\ p.isOfficial
             /\ p.collection = S_payload
             /\ p.license # Null
             /\ ~Truthy(p.payloadVersion) => p.payloadVersionMajor = <<3>>

----------------------------------------------------------------------------
(* Claims about the batches of a run, checked under SpecBatches            *)

\* The processRepository calls that have not returned.
ReposInFlight == {r \in DOMAIN bt_calls : bt_calls[r].stage # "done"}

\* The sub-package manifest requests outstanding in the calls rs.
RECURSIVE SubFetchesInFlight(_)
SubFetchesInFlight(rs) ==
  IF rs = {} THEN 0
  ELSE LET r == CHOOSE x \in rs : TRUE
       IN Cardinality(bt_calls[r].out) + SubFetchesInFlight(rs \ {r})

\* Every operation in flight belongs to the current slice of its loop: none
\* is left from an earlier batch.
InCurrentBatches ==
  /\ DOMAIN bt_calls \subseteq (bt_i + 1)..(bt_i + RepoBatchSize)
  /\ \A r \in DOMAIN bt_calls :
       bt_calls[r].out \subseteq (bt_calls[r].bi + 1)..(bt_calls[r].bi + SubBatchSize)
  /\ bt_queries \subseteq (bt_j + 1)..(bt_j + NpmBatchSize)
  /\ bt_queries # {} => ReposInFlight = {}

\* C25, as stated: at every moment at most 10 repositories are being
\* processed, at most 5 sub-package manifest requests are outstanding and at
\* most 10 plugins are being enriched, and a batch starts only after every
\* item of the previous one has completed.
C25_InFlightWithinBatchSizes ==
  /\ Cardinality(ReposInFlight) <= RepoBatchSize
  /\ SubFetchesInFlight(DOMAIN bt_calls) <= SubBatchSize
  /\ Cardinality(bt_queries) <= NpmBatchSize
  /\ InCurrentBatches

\* C25, amended: at most 10 repositories are being processed, at most 5
\* sub-package manifest requests are outstanding for each of them (at most
\* 50 in all) and at most 10 plugins are being enriched, and a batch starts
\* only after every item of the previous one has completed.
C25_InFlightWithinBatchSizesPerCall ==
  /\ Cardinality(ReposInFlight) <= RepoBatchSize
  /\ \A r \in DOMAIN bt_calls : Cardinality(bt_calls[r].out) <= SubBatchSize
  /\ SubFetchesInFlight(DOMAIN bt_calls) <= RepoBatchSize * SubBatchSize
  /\ Cardinality(bt_queries) <= NpmBatchSize
  /\ InCurrentBatches

\* Ten repositories are being processed and two of them have more than five
\* sub-package manifest requests outstanding between them.
C25_Witness ==
  /\ Cardinality(ReposInFlight) = RepoBatchSize
  /\ SubFetchesInFlight(DOMAIN bt_calls) > SubBatchSize
  /\ \A r \in DOMAIN bt_calls : Cardinality(bt_calls[r].out) <= SubBatchSize

\* The packages of the repository in directory order, and its plugins.
ExpectedPackages(r) ==
  SelectSeq([d \in 1..BtDirCount(r) |-> BtSubManifest(r, d)], LAMBDA v : v # None)
ExpectedPlugins(r) ==
  IF BtDirCount(r) = 0 THEN BtRootPlugins(r)
  ELSE BtMemberPlugins(r, ExpectedPackages(r))

\* The plugins of the first n repositories in discovery order.
RECURSIVE ExpectedCommunity(_)
ExpectedCommunity(n) ==
  IF n = 0 THEN <<>> ELSE ExpectedCommunity(n - 1) \o ExpectedPlugins(n)

ExpectedEnriched(plugins) ==
  [k \in DOMAIN plugins |->
     IF BtNpm(plugins[k]) # None THEN Merge(plugins[k], [npm |-> BtNpm(plugins[k])])
     ELSE plugins[k]]

\* C29: for fixed answers of the servers the written list does not depend
\* on the order in which the calls of a batch return: it is the official
\* records followed by the community records in discovery order, each with
\* its own statistics, stably sorted by stars descending; while a batch is
\* in flight every settled entry of its result array is the answer for the
\* item at that index.
C29_OrderOfCompletionIrrelevant ==
  /\ \A k \in DOMAIN bt_results :
       bt_results[k].done => bt_results[k].value = ExpectedPlugins(bt_i + k)
  /\ \A r \in DOMAIN bt_calls : \A k \in DOMAIN bt_calls[r].results :
       bt_calls[r].results[k].done =>
         bt_calls[r].results[k].value = BtSubManifest(r, bt_calls[r].bi + k)
  /\ \A k \in DOMAIN bt_npmResults :
       bt_npmResults[k].done => bt_npmResults[k].value.plugin = bt_j + k
  /\ bt_pc \in {"enrich", "written"} => bt_community = ExpectedCommunity(bt_n)
  /\ bt_pc = "written" =>
       bt_all = SortByStars(ExpectedEnriched(BtOfficial \o ExpectedCommunity(bt_n)))

\* The list was written by a run in which a call returned before a call
\* issued earlier in the same batch.
C29_Witness ==
  /\ bt_pc = "written"
  /\ bt_reordered
  /\ Len(bt_all) > NpmBatchSize

----------------------------------------------------------------------------
(* Claims about enrichPluginsWithNpmData, checked under Spec               *)

\* The name is one of the denylist, in any letter case.
Denylisted(name) == \E bad \in INVALID_PACKAGE_NAMES : ToLowerCase(name) = bad

\* The record has no field the other lacks, except npm, and the fields of
\* the record before have kept their values.
SameButNpm(before, after) ==
  /\ DOMAIN before \subseteq DOMAIN after
  /\ DOMAIN after \ DOMAIN before \subseteq {"npm"}
  /\ \A f \in DOMAIN before : after[f] = before[f]

\* C26: enrichPluginsWithNpmData gives a plugin registry statistics only if
\* its package name matches the naming pattern, is not in the denylist in
\* any letter case, and the registry answered for it; no other field of any
\* plugin changes and no plugin is added, removed or moved.
C26_EnrichmentOnlyAddsNpm ==
  [][m_pc = "enrich" =>
       /\ DOMAIN m_allPlugins' = DOMAIN m_allPlugins
       /\ \A k \in DOMAIN m_allPlugins :
            LET before == m_allPlugins[k]
                after == m_allPlugins'[k]
            IN /\ SameButNpm(before, after)
               /\ "npm" \in DOMAIN after =>
                    /\ Truthy(before.packageName)
                    /\ MatchesPackagePattern(before.packageName)
                    /\ ~Denylisted(before.packageName)
                    /\ SiteNpm(before.packageName) # None
                    /\ after.npm = SiteNpm(before.packageName)]_vars

\* After the enrichment one plugin carries statistics, and a plugin whose
\* name is in the denylist, one without a name, one whose name has capital
\* letters and one whose query failed carry none.
C26_Witness ==
  /\ m_pc = "score"
  /\ \E p \in Range(m_allPlugins) : "npm" \in DOMAIN p
  /\ \E p \in Range(m_allPlugins) :
       Truthy(p.packageName) /\ Denylisted(p.packageName) /\ "npm" \notin DOMAIN p
  /\ \E p \in Range(m_allPlugins) : p.packageName = Null /\ "npm" \notin DOMAIN p
  /\ \E p \in Range(m_allPlugins) :
       /\ Truthy(p.packageName)
       /\ ~MatchesPackagePattern(p.packageName)
       /\ "npm" \notin DOMAIN p
  /\ UnenrichedKnownNames # {}

----------------------------------------------------------------------------
(* The contributions of the health score as the thresholds are stated,     *)
(* checked under SpecHealth                                                *)

\* values[k] for the first limit days is under, 0 when it is under none or
\* is not known.
Bucket(known, days, limits, values) ==
  LET under == {k \in DOMAIN limits : days < limits[k]} IN
    IF ~known \/ under = {} THEN 0
    ELSE values[CHOOSE k \in under : \A j \in under : k <= j]

RecencyLimits == <<30, 90, 180, 365>>

\* The nine contributions, in the order of their maxima.
ContributionMaxima == <<20, 15, 10, 5, 20, 15, 10, 5, 5>>

Contributions(p, now) ==
  LET hasNpm == p.npm # None
      hasPublish == hasNpm /\ Truthy(p.npm.lastPublish) /\ ValidDate(p.npm.lastPublish)
  IN << Bucket(ValidDate(p.lastUpdate),
               IF ValidDate(p.lastUpdate) THEN now - ParseInt(p.lastUpdate) ELSE 0,
               RecencyLimits, <<20, 15, 10, 5>>),
        IF p.stars = 0 THEN 0 ELSE RoundedLogScore(p.stars, 15),
        IF p.stars > 0
          THEN Bucket(TRUE, 100 * p.openIssues, <<5 * p.stars, 10 * p.stars, 20 * p.stars>>,
                      <<10, 7, 4>>)
          ELSE (IF p.openIssues = 0 THEN 10 ELSE 0),
        IF Truthy(p.license) THEN 5 ELSE 0,
        IF hasNpm /\ p.npm.weeklyDownloads > 0
          THEN RoundedLogScore(p.npm.weeklyDownloads, 20) ELSE 0,
        Bucket(hasPublish,
               IF hasPublish THEN now - ParseInt(p.npm.lastPublish) ELSE 0,
               RecencyLimits, <<15, 12, 8, 4>>),
        IF hasNpm THEN Bucket(TRUE, p.npm.dependencyCount, <<4, 9, 16>>, <<10, 7, 4>>)
        ELSE 0,
        IF hasNpm /\ p.npm.unpackedSize # None
          THEN Bucket(TRUE, p.npm.unpackedSize.bytes, <<51200, 204800, 1048576>>, <<5, 3, 1>>)
          ELSE 0,
        IF p.isOfficial THEN 5 ELSE 0 >>

RECURSIVE SumOf(_)
SumOf(ns) == IF ns = <<>> THEN 0 ELSE Head(ns) + SumOf(Tail(ns))

\* C27: the score of a plugin that is not archived is the least of 100 and
\* the sum of its nine contributions (the four of the registry only when
\* the statistics are there), and no contribution exceeds its maximum.
C27_ScoreIsClampedSum ==
  \A c \in HS_Scored :
    ~c.plugin.isArchived =>
      /\ c.score = Min(100, SumOf(Contributions(c.plugin, c.at)))
      /\ \A k \in DOMAIN ContributionMaxima :
           Contributions(c.plugin, c.at)[k] \in 0..ContributionMaxima[k]

\* A plugin without stars and with open issues, with registry statistics,
\* was scored the sum of its contributions, under 100.
C27_Witness ==
  \E c \in HS_Scored :
    /\ ~c.plugin.isArchived
    /\ c.plugin.stars = 0
    /\ c.plugin.openIssues > 0
    /\ c.plugin.npm # None
    /\ Contributions(c.plugin, c.at)[3] = 0
    /\ c.score = SumOf(Contributions(c.plugin, c.at))
    /\ c.score \in 1..99

----------------------------------------------------------------------------
(* Claims about the length of a fetchWithRetry call, checked under SpecFetch *)

\* C28: a call fetchWithRetry(url, n) issues at most n requests whatever the
\* answers are: every answer that does not end the call uses up one of the
\* n attempts, and the call ends by returning the last answer (a 2xx or a
\* 404) or by throwing the retry-exhaustion error after the n-th request.
C28_AtMostNRequests ==
  /\ Len(fw_resps) <= fw_maxRetries
  /\ fw_pc \in {"loop", "returned", "thrown"}
  /\ fw_pc = "loop" => (fw_i = Len(fw_resps) /\ ENABLED FW_Next)
  /\ fw_pc = "returned" =>
       /\ fw_resps # <<>>
       /\ fw_result = fw_resps[Len(fw_resps)]
       /\ Classify(fw_result) \in {"ok", "notfound"}
  /\ fw_pc = "thrown" =>
       /\ fw_result = [error |-> "Failed to fetch", url |-> fw_url, retries |-> fw_maxRetries]
       /\ Len(fw_resps) = fw_maxRetries
       /\ \A k \in DOMAIN fw_resps : Classify(fw_resps[k]) \in {"ratelimit", "retry"}

\* A call with the default n threw after exactly n requests, answered by a
\* rate-limited 403 and by other failures.
C28_Witness ==
  /\ fw_pc = "thrown"
  /\ fw_maxRetries = DefaultMaxRetries
  /\ Len(fw_resps) = DefaultMaxRetries
  /\ \E k \in DOMAIN fw_resps : Classify(fw_resps[k]) = "ratelimit"
  /\ \E k \in DOMAIN fw_resps : Classify(fw_resps[k]) = "retry"

====
